---- MODULE Spec2Model ----
(***************************************************************************)
(* A model of hack-vm-translator: the Parser (src/lib/parser.rs) turns the *)
(* text of a .vm file into Instructions, the Translator                    *)
(* (src/lib/translator.rs) turns one Instruction into Hack assembly.       *)
(*                                                                         *)
(* Text (a token, a line of the input, a line of assembly) is a sequence   *)
(* of characters; a character is a one-character string.  NonAscii stands  *)
(* for a letter outside ASCII.  The message an error carries is a sequence *)
(* of fragments: the literal pieces of the format string and the           *)
(* characters of the values interpolated into it.                          *)
(***************************************************************************)
EXTENDS Integers, Sequences, FiniteSets, TLC

VARIABLES
    call,          \* the entry point the behaviour exercises
    file,          \* Parser.file, as the physical lines str::lines yields
    parsed,        \* what Parser::parse returned
    text,          \* the &str handed to Symbol::from_str / Constant::from_str
    number,        \* the u16 handed to Constant::try_from
    symbol,        \* the Result<Symbol, HackError> of Symbol::from_str
    constant,      \* the Result<Constant, HackError> of the Constant constructor
    rendered,      \* what Display has written of the value built, if it has
    instruction,   \* the &Instruction handed to Translator::translate
    line_number,   \* the usize handed to Translator::translate
    file_name,     \* the &str handed to Translator::translate
    assembly,      \* the outcome of Translator::translate
    returned,      \* the calls of Translator::translate that have returned
    run,           \* a call of run_for_file: its position, locals and the disk
    machine        \* the Hack computer running emitted assembly

vars == <<call, file, parsed, text, number, symbol, constant,
          rendered, instruction, line_number, file_name, assembly,
          returned, run, machine>>

parserVars == <<file, parsed>>
valueVars == <<text, number, symbol, constant, rendered>>
translatorVars == <<instruction, line_number, file_name, assembly>>
laterVars == <<returned, run, machine>>

----------------------------------------------------------------------------
(* Bounds of the model. *)

\* the longest string, over Alphabet, handed to Symbol::from_str
MaxSymbolLen == 2
\* the longest string, over ConstantAlphabet, handed to Constant::from_str
MaxConstantLen == 2
\* how far around 0, MAX_VALID_CONSTANT and u16::MAX the integers tried reach
Window == 3
\* the most physical lines in a file of more than one line
MaxLines == 3
\* the most tokens a line has beyond the three of the longest command
MaxExtraTokens == 2
\* the largest line index handed to Translator::translate
MaxLineNumber == 11

----------------------------------------------------------------------------
(* Results and call states. *)

Ok(v) == [ok |-> TRUE, val |-> v]
Err(e) == [ok |-> FALSE, err |-> e]
\* a call that has not returned yet
Pending == [pending |-> TRUE]
\* a value no call of the behaviour uses
Unused == [unused |-> TRUE]
IsOk(r) == "ok" \in DOMAIN r /\ r.ok
IsErr(r) == "ok" \in DOMAIN r /\ ~r.ok

----------------------------------------------------------------------------
(* Characters. *)

NonAscii == "U+00E9"
AsciiDigit == {"0", "1", "2", "3", "4", "5", "6", "7", "8", "9"}
AsciiLowercase == {"a", "b", "c", "d", "e", "f", "g", "h", "i", "j", "k", "l", "m", "n", "o", "p", "q", "r", "s", "t", "u", "v", "w", "x", "y", "z"}
AsciiUppercase == {"A", "B", "C", "D", "E", "F", "G", "H", "I", "J", "K", "L", "M", "N", "O", "P", "Q", "R", "S", "T", "U", "V", "W", "X", "Y", "Z"}
WhiteSpace == {" ", "\t", "\r"}

is_ascii_digit(character) == character \in AsciiDigit
is_ascii_alphanumeric(character) ==
    character \in AsciiLowercase \cup AsciiUppercase \cup AsciiDigit
is_whitespace(character) == character \in WhiteSpace

DigitValue(character) ==
    CASE character = "0" -> 0 [] character = "1" -> 1 [] character = "2" -> 2
      [] character = "3" -> 3 [] character = "4" -> 4 [] character = "5" -> 5
      [] character = "6" -> 6 [] character = "7" -> 7 [] character = "8" -> 8
      [] character = "9" -> 9
DigitChar(d) == <<"0", "1", "2", "3", "4", "5", "6", "7", "8", "9">>[d + 1]

\* every string over alphabet of length 0..n
RECURSIVE StringsUpTo(_, _)
StringsUpTo(alphabet, n) ==
    IF n = 0 THEN {<<>>}
    ELSE LET shorter == StringsUpTo(alphabet, n - 1)
         IN shorter \cup {Append(s, c) : s \in shorter, c \in alphabet}

\* u16 as core::fmt::Display writes it: decimal, no sign, no leading zero
RECURSIVE u16_fmt(_)
u16_fmt(n) ==
    IF n < 10 THEN <<DigitChar(n)>>
    ELSE Append(u16_fmt(n \div 10), DigitChar(n % 10))

----------------------------------------------------------------------------
(* HackError (src/lib/error.rs). *)

MAX_VALID_CONSTANT == 32767
\* u16::MAX, the largest value s.parse::<u16>() yields
U16_MAX == 65535

SymbolHasForbiddenCharacter == [kind |-> "SymbolHasForbiddenCharacter"]
UnrecognizedInstruction(message) ==
    [kind |-> "UnrecognizedInstruction", message |-> message]
IllegalInstruction(message) ==
    [kind |-> "IllegalInstruction", message |-> message]
FromStrError(message) == [kind |-> "FromStrError", message |-> message]
Overflow == [kind |-> "Overflow"]
Internal == [kind |-> "Internal"]

\* impl Display for HackError, for the kinds the Parser formats into a message
HackError_fmt(error) ==
    CASE error.kind = "SymbolHasForbiddenCharacter" ->
            <<"symbols must be a sequence of letters (a-z || A-Z), digits (0-9), underscores (_), dots (.), dollar signs ($), and/or colons (:) that does not begin with a digit">>
      [] error.kind = "UnrecognizedInstruction" ->
            <<"could not determine instruction type for \"">> \o error.message
                \o <<"\"">>
      [] error.kind = "Overflow" ->
            <<"constants much be non-negative integers which are less than or equal to ">>
                \o u16_fmt(MAX_VALID_CONSTANT)
      [] error.kind = "Internal" ->
            <<"internal error, please report this incident">>
      [] OTHER -> error.message

----------------------------------------------------------------------------
(* Symbol (src/lib/parser.rs). *)

\* a mutant: the leading-digit test left out
is_allowed_symbol_no_digit_rule(string) ==
    /\ string # <<>>
    /\ ~\E i \in DOMAIN string :
          ~(\/ is_ascii_alphanumeric(string[i])
            \/ string[i] = "_"
            \/ string[i] = ":"
            \/ string[i] = "."
            \/ string[i] = "$")

is_allowed_symbol(string) ==
    /\ string # <<>>
    /\ ~\E i \in DOMAIN string :
          ~(\/ is_ascii_alphanumeric(string[i])
            \/ string[i] = "_"
            \/ string[i] = ":"
            \/ string[i] = "."
            \/ string[i] = "$")
    /\ ~(string # <<>> /\ is_ascii_digit(string[1]))

Symbol_from_str(s) ==
    IF is_allowed_symbol(s)
    THEN Ok([literal_representation |-> s])
    ELSE Err(SymbolHasForbiddenCharacter)

\* impl Display for Symbol
Symbol_fmt(sym) == sym.literal_representation

----------------------------------------------------------------------------
(* Constant (src/lib/parser.rs). *)

\* <u16 as FromStr>::from_str over the digits left: checked multiply and add
RECURSIVE parse_digits(_, _)
parse_digits(digits, acc) ==
    IF digits = <<>> THEN Ok(acc)
    ELSE IF ~is_ascii_digit(Head(digits)) THEN Err("invalid digit found in string")
    ELSE LET next == acc * 10 + DigitValue(Head(digits))
         IN IF next > U16_MAX
            THEN Err("number too large to fit in target type")
            ELSE parse_digits(Tail(digits), next)

\* s.parse::<u16>(): an optional leading +, then decimal digits only
str_parse_u16(s) ==
    IF s = <<>> THEN Err("cannot parse integer from empty string")
    ELSE IF s = <<"+">> \/ s = <<"-">> THEN Err("invalid digit found in string")
    ELSE parse_digits(IF Head(s) = "+" THEN Tail(s) ELSE s, 0)

\* impl TryFrom<u16> for Constant
Constant_try_from(value) ==
    IF value <= MAX_VALID_CONSTANT
    THEN Ok([literal_representation |-> value])
    ELSE Err(Overflow)

\* impl FromStr for Constant
Constant_from_str(s) ==
    LET together == str_parse_u16(s)
    IN IF together.ok
       THEN Constant_try_from(together.val)
       ELSE Err(FromStrError(<<"invalid constant: \"">> \o s
                              \o <<"\" for reason: ", together.err>>))

\* impl Display for Constant
Constant_fmt(c) == u16_fmt(c.literal_representation)

----------------------------------------------------------------------------
(* Instruction and its four families (src/lib/parser.rs). *)

\* Arithmetic: the command and the operator associated with it
ADD == <<<<"a", "d", "d">>, <<"+">>>>
SUBTRACT == <<<<"s", "u", "b">>, <<"-">>>>
NEGATIVE == <<<<"n", "e", "g">>, <<"-">>>>
EQUAL == <<<<"e", "q">>, <<"J", "E", "Q">>>>
GREATER_THAN == <<<<"g", "t">>, <<"J", "G", "T">>>>
LESS_THAN == <<<<"l", "t">>, <<"J", "L", "T">>>>
AND == <<<<"a", "n", "d">>, <<"&">>>>
OR == <<<<"o", "r">>, <<"|">>>>
NOT == <<<<"n", "o", "t">>, <<"!">>>>

PUSH == <<"p", "u", "s", "h">>
POP == <<"p", "o", "p">>
LABEL == <<"l", "a", "b", "e", "l">>
GO_TO == <<"g", "o", "t", "o">>
IF_GO_TO == <<"i", "f", "-", "g", "o", "t", "o">>
FUNCTION == <<"f", "u", "n", "c", "t", "i", "o", "n">>
\* a mutant: the keyword of call is the one of push
CALL_as_push == <<"p", "u", "s", "h">>
CALL == <<"c", "a", "l", "l">>
RETURN == <<"r", "e", "t", "u", "r", "n">>

ArithmeticOps ==
    {"Add", "Subtract", "Negative", "Equal", "GreaterThan", "Lessthan", "And",
     "Or", "Not"}

\* Arithmetic::identify
identify(op) ==
    CASE op = "Add" -> ADD
      [] op = "Subtract" -> SUBTRACT
      [] op = "Negative" -> NEGATIVE
      [] op = "Equal" -> EQUAL
      [] op = "GreaterThan" -> GREATER_THAN
      [] op = "Lessthan" -> LESS_THAN
      [] op = "And" -> AND
      [] op = "Or" -> OR
      [] op = "Not" -> NOT

\* impl FromStr for Arithmetic: the first arm whose guard holds
Arithmetic_from_str(s) ==
    CASE ADD[1] = s -> Ok("Add")
      [] SUBTRACT[1] = s -> Ok("Subtract")
      [] NEGATIVE[1] = s -> Ok("Negative")
      [] EQUAL[1] = s -> Ok("Equal")
      [] GREATER_THAN[1] = s -> Ok("GreaterThan")
      [] LESS_THAN[1] = s -> Ok("Lessthan")
      [] AND[1] = s -> Ok("And")
      [] OR[1] = s -> Ok("Or")
      [] NOT[1] = s -> Ok("Not")
      [] OTHER -> Err(FromStrError(<<"invalid arithmetic operation: \"">> \o s
                                    \o <<"\"">>))

\* the variants of the families, as values
Push(sym, value) == [variant |-> "Push", symbol |-> sym, value |-> value]
Pop(sym, value) == [variant |-> "Pop", symbol |-> sym, value |-> value]
Label(sym) == [variant |-> "Label", symbol |-> sym]
GoTo(sym) == [variant |-> "GoTo", symbol |-> sym]
IfGoTo(sym) == [variant |-> "IfGoTo", symbol |-> sym]
Function(sym, value) == [variant |-> "Function", symbol |-> sym, value |-> value]
Call(sym, value) == [variant |-> "Call", symbol |-> sym, value |-> value]
Return == [variant |-> "Return"]

\* impl From<...> for Instruction
StackManipulationInstruction(v) == [family |-> "StackManipulation", of |-> v]
BranchingInstruction(v) == [family |-> "Branching", of |-> v]
FunctionalInstruction(v) == [family |-> "Functional", of |-> v]
ArithmeticInstruction(op) == [family |-> "Arithmetic", of |-> op]

\* impl FromStr for Functional
Functional_from_str(s) ==
    IF s = RETURN THEN Ok(Return)
    ELSE Err(FromStrError(<<"invalid functional operation: \"">> \o s
                           \o <<"\"">>))

\* impl TryFrom<&(&str, Symbol, Constant)> for StackManipulation
StackManipulation_try_from(command, sym, value) ==
    CASE command = PUSH -> Ok(Push(sym, value))
      [] command = POP -> Ok(Pop(sym, value))
      [] OTHER ->
            Err(FromStrError(<<"invalid stack manipulation operation: \"">>
                \o command \o <<" ">> \o Symbol_fmt(sym) \o <<" ">>
                \o Constant_fmt(value) \o <<"\"">>))

\* impl TryFrom<&(&str, Symbol, Constant)> for Functional
Functional_try_from(command, sym, value) ==
    CASE command = CALL -> Ok(Call(sym, value))
      [] command = FUNCTION -> Ok(Function(sym, value))
      [] OTHER ->
            Err(FromStrError(<<"invalid functional operation: \"">>
                \o command \o <<" ">> \o Symbol_fmt(sym) \o <<" ">>
                \o Constant_fmt(value) \o <<"\"">>))

\* impl TryFrom<&(&str, Symbol)> for Branching
Branching_try_from(command, sym) ==
    CASE command = LABEL -> Ok(Label(sym))
      [] command = GO_TO -> Ok(GoTo(sym))
      [] command = IF_GO_TO -> Ok(IfGoTo(sym))
      [] OTHER ->
            Err(FromStrError(<<"invalid branching operation: \"">>
                \o command \o <<" ">> \o Symbol_fmt(sym) \o <<"\"">>))

\* a mutant: Return is tried first and an Arithmetic command is not recognized
Instruction_from_str_return_only(s) ==
    LET functional == Functional_from_str(s)
    IN IF functional.ok THEN Ok(FunctionalInstruction(functional.val))
       ELSE Err(UnrecognizedInstruction(s))

\* impl FromStr for Instruction
Instruction_from_str(s) ==
    LET arithmetic == Arithmetic_from_str(s)
        functional == Functional_from_str(s)
    IN CASE arithmetic.ok /\ ~functional.ok ->
                Ok(ArithmeticInstruction(arithmetic.val))
         [] ~arithmetic.ok /\ functional.ok ->
                Ok(FunctionalInstruction(functional.val))
         [] ~arithmetic.ok /\ ~functional.ok ->
                Err(UnrecognizedInstruction(s))
         [] arithmetic.ok /\ functional.ok -> Err(Internal)

\* impl TryFrom<&(&str, Symbol)> for Instruction
Instruction_try_from_branching(command, sym) ==
    LET branching == Branching_try_from(command, sym)
    IN IF branching.ok THEN Ok(BranchingInstruction(branching.val))
       ELSE Err(branching.err)

\* a mutant: function and call are taken for push
Instruction_try_from_all_push(command, sym, value) ==
    IF command \in {PUSH, POP, FUNCTION, CALL}
    THEN Ok(StackManipulationInstruction(
                IF command = POP THEN Pop(sym, value) ELSE Push(sym, value)))
    ELSE Err(UnrecognizedInstruction(command \o <<" ">> \o Symbol_fmt(sym)
                                     \o <<" ">> \o Constant_fmt(value)))

\* impl TryFrom<&(&str, Symbol, Constant)> for Instruction
Instruction_try_from(command, sym, value) ==
    LET stack_manipulation == StackManipulation_try_from(command, sym, value)
        functional == Functional_try_from(command, sym, value)
    IN CASE stack_manipulation.ok /\ ~functional.ok ->
                Ok(StackManipulationInstruction(stack_manipulation.val))
         [] ~stack_manipulation.ok /\ functional.ok ->
                Ok(FunctionalInstruction(functional.val))
         [] ~stack_manipulation.ok /\ ~functional.ok ->
                Err(UnrecognizedInstruction(command \o <<" ">>
                    \o Symbol_fmt(sym) \o <<" ">> \o Constant_fmt(value)))
         [] stack_manipulation.ok /\ functional.ok -> Err(Internal)

----------------------------------------------------------------------------
(* Parser (src/lib/parser.rs). *)

None == [some |-> FALSE]
Some(v) == [some |-> TRUE, val |-> v]

\* str::trim: the text without its leading and trailing white space
RECURSIVE trim_start(_)
trim_start(line) ==
    IF line # <<>> /\ is_whitespace(Head(line)) THEN trim_start(Tail(line))
    ELSE line
RECURSIVE trim_end(_)
trim_end(line) ==
    IF line # <<>> /\ is_whitespace(line[Len(line)])
    THEN trim_end(SubSeq(line, 1, Len(line) - 1))
    ELSE line
trim(line) == trim_end(trim_start(line))

\* str::starts_with
starts_with(line, prefix) ==
    /\ Len(line) >= Len(prefix)
    /\ SubSeq(line, 1, Len(prefix)) = prefix

\* str::split_whitespace: the maximal runs of characters that are not white space
RECURSIVE split_from(_, _, _)
split_from(line, word, words) ==
    IF line = <<>> THEN (IF word = <<>> THEN words ELSE Append(words, word))
    ELSE IF is_whitespace(Head(line))
         THEN split_from(Tail(line), <<>>,
                         IF word = <<>> THEN words ELSE Append(words, word))
         ELSE split_from(Tail(line), Append(word, Head(line)), words)
split_whitespace(line) == split_from(line, <<>>, <<>>)

\* the closure of Parser::lines: None for a blank line and for a comment
lines_closure(physical) ==
    LET line == trim(physical)
    IN IF starts_with(line, <<"/", "/">>) \/ line = <<>> THEN None
       ELSE Some(split_whitespace(line))

\* Iterator::filter_map over the lines of the file
RECURSIVE filter_map_lines(_)
filter_map_lines(physicals) ==
    IF physicals = <<>> THEN <<>>
    ELSE LET item == lines_closure(Head(physicals))
         IN IF item.some THEN <<item.val>> \o filter_map_lines(Tail(physicals))
            ELSE filter_map_lines(Tail(physicals))

\* Parser::lines
Parser_lines(contents) == filter_map_lines(contents)

\* a mutant: the tokens beyond the third are ignored
instruction_closure_first_three(parts) ==
    CASE Len(parts) = 1 -> Instruction_from_str(parts[1])
      [] Len(parts) = 2 ->
            LET sym == Symbol_from_str(parts[2])
            IN IF sym.ok
               THEN Instruction_try_from_branching(parts[1], sym.val)
               ELSE Err(sym.err)
      [] Len(parts) >= 3 ->
            LET sym == Symbol_from_str(parts[2])
                value == Constant_from_str(parts[3])
            IN (CASE sym.ok /\ value.ok ->
                         Instruction_try_from(parts[1], sym.val, value.val)
                  [] ~sym.ok /\ ~value.ok ->
                         Err(UnrecognizedInstruction(HackError_fmt(sym.err)
                             \o <<"\n\n">> \o HackError_fmt(value.err)))
                  [] sym.ok /\ ~value.ok -> Err(value.err)
                  [] ~sym.ok /\ value.ok -> Err(sym.err))
      [] OTHER -> Err(IllegalInstruction(<<"received an illegal instruction">>))

\* the closure of Parser::to_internal_types: one line's tokens to an Instruction
instruction_closure(parts) ==
    CASE Len(parts) = 1 -> Instruction_from_str(parts[1])
      [] Len(parts) = 2 ->
            LET sym == Symbol_from_str(parts[2])
            IN IF sym.ok
               THEN Instruction_try_from_branching(parts[1], sym.val)
               ELSE Err(sym.err)
      [] Len(parts) = 3 ->
            LET sym == Symbol_from_str(parts[2])
                value == Constant_from_str(parts[3])
            IN (CASE sym.ok /\ value.ok ->
                         Instruction_try_from(parts[1], sym.val, value.val)
                  [] ~sym.ok /\ ~value.ok ->
                         Err(UnrecognizedInstruction(HackError_fmt(sym.err)
                             \o <<"\n\n">> \o HackError_fmt(value.err)))
                  [] sym.ok /\ ~value.ok -> Err(value.err)
                  [] ~sym.ok /\ value.ok -> Err(sym.err))
      [] OTHER -> Err(IllegalInstruction(<<"received an illegal instruction">>))

\* a mutant: a failing line is skipped and the rest is collected
RECURSIVE collect_skipping(_, _)
collect_skipping(items, vec) ==
    IF items = <<>> THEN Ok(vec)
    ELSE IF Head(items).ok
         THEN collect_skipping(Tail(items), Append(vec, Head(items).val))
         ELSE collect_skipping(Tail(items), vec)

\* Iterator::collect::<Result<Vec<Instruction>, HackError>>: the first Err
\* ends the iteration and is the result, the Vec gathered so far is dropped
RECURSIVE collect(_, _)
collect(items, vec) ==
    IF items = <<>> THEN Ok(vec)
    ELSE IF Head(items).ok
         THEN collect(Tail(items), Append(vec, Head(items).val))
         ELSE Err(Head(items).err)

\* a mutant: the index counts from one
enumerate_from_one(vec) == [i \in 1..Len(vec) |-> <<i, vec[i]>>]

\* a mutant: the positions are counted in twos
enumerate_in_pairs(vec) == [i \in 1..Len(vec) |-> <<(i - 1) \div 2, vec[i]>>]

\* Iterator::enumerate: each item with its position, from zero
enumerate(vec) == [i \in 1..Len(vec) |-> <<i - 1, vec[i]>>]

\* Parser::to_internal_types
to_internal_types(iterator) ==
    LET items == [i \in 1..Len(iterator) |-> instruction_closure(iterator[i])]
        collected == collect(items, <<>>)
    IN IF collected.ok THEN Ok(enumerate(collected.val)) ELSE Err(collected.err)

\* Parser::parse
Parser_parse(contents) == to_internal_types(Parser_lines(contents))

----------------------------------------------------------------------------
(* The inputs tried. *)

\* the tokens tried as the first token of a line
CommandWords ==
    {ADD[1], SUBTRACT[1], NEGATIVE[1], EQUAL[1], GREATER_THAN[1], LESS_THAN[1],
     AND[1], OR[1], NOT[1], PUSH, POP, LABEL, GO_TO, IF_GO_TO, FUNCTION, CALL,
     RETURN, <<"b", "a", "n", "a", "n", "a">>, <<"A", "d", "d">>, <<"+">>, <<"J", "E", "Q">>, <<"i", "f", "g", "o", "t", "o">>}

\* the tokens tried as the second token of a line of two tokens
SymbolWords ==
    {<<"L", "O", "O", "P">>, <<"M", "a", "i", "n", ".", "f", "$", "x", ":", "_", "9">>, <<"c", "o", "n", "s", "t", "a", "n", "t">>, <<"7", "u", "p">>, <<"a", "-", "b">>, <<"/", "/">>,
     <<"n", NonAscii>>}

\* the tokens tried as the second token of a line of three tokens
SegmentWords == {<<"c", "o", "n", "s", "t", "a", "n", "t">>, <<"l", "o", "c", "a", "l">>, <<"M", "a", "i", "n", ".", "f", "$", "x", ":", "_", "9">>, <<"7", "u", "p">>}

\* the tokens tried as the third token of a line of three tokens
ConstantWords ==
    {<<"0">>, <<"2">>, <<"1", "7">>, <<"3", "2", "7", "6", "7">>, <<"3", "2", "7", "6", "8">>, <<"9", "9", "9", "9", "9">>, <<"+", "5">>, <<"-", "1">>,
     <<"x">>}

\* the tokens tried beyond the third
ExtraWords == {<<"/", "/">>, <<"c", "o", "m", "m", "e", "n", "t">>, <<"a", "d", "d">>}

RECURSIVE Join(_)
Join(words) ==
    IF words = <<>> THEN <<>>
    ELSE IF Len(words) = 1 THEN words[1]
    ELSE words[1] \o <<" ">> \o Join(Tail(words))

RECURSIVE SeqsOfLen(_, _)
SeqsOfLen(S, n) ==
    IF n = 0 THEN {<<>>}
    ELSE {Append(s, x) : s \in SeqsOfLen(S, n - 1), x \in S}

\* lines of one, two and three tokens, and of up to MaxExtraTokens more
TokenLines ==
    {<<c>> : c \in CommandWords \cup SymbolWords}
    \cup {<<c, s>> : c \in CommandWords, s \in SymbolWords}
    \cup {<<c, s, k>> : c \in CommandWords, s \in SegmentWords,
                        k \in ConstantWords}
    \cup UNION {{<<c, s, k>> \o extra :
                    c \in {PUSH, ADD[1], LABEL, <<"b", "a", "n", "a", "n", "a">>},
                    s \in {<<"c", "o", "n", "s", "t", "a", "n", "t">>, <<"7", "u", "p">>},
                    k \in {<<"1", "7">>, <<"x">>},
                    extra \in SeqsOfLen(ExtraWords, n)} : n \in 1..MaxExtraTokens}

\* lines with blanks, comments and white space of every kind
CoreLines ==
    {<<>>, <<" ", " ", "\t">>, <<"/", "/", " ", "c", "o", "m", "m", "e", "n", "t">>, <<" ", " ", "/", "/", " ", "p", "u", "s", "h", " ", "c", "o", "n", "s", "t", "a", "n", "t", " ", "1", "\r">>, <<"/", "/">>,
     <<"a", "d", "d">>, <<"\t", "p", "u", "s", "h", " ", " ", "c", "o", "n", "s", "t", "a", "n", "t", "\t", "7", " ", "\r">>, <<"p", "o", "p", " ", "l", "o", "c", "a", "l", " ", "2">>, <<"e", "q">>,
     <<"b", "a", "n", "a", "n", "a">>, <<"p", "u", "s", "h", " ", "c", "o", "n", "s", "t", "a", "n", "t", " ", "9", "9", "9", "9", "9">>, <<"l", "a", "b", "e", "l", " ", "L", "O", "O", "P">>, <<"g", "o", "t", "o", " ", "7", "u", "p">>,
     <<"r", "e", "t", "u", "r", "n">>, <<"p", "u", "s", "h", " ", "c", "o", "n", "s", "t", "a", "n", "t", " ", "1", " ", "/", "/", " ", "c">>}

Files ==
    {<<>>}
    \cup {<<Join(words)>> : words \in TokenLines}
    \cup UNION {SeqsOfLen(CoreLines, n) : n \in 1..MaxLines}

----------------------------------------------------------------------------
(* Parsing one file. *)

\* the variables of the calls a behaviour does not make
ParserUnused == file = <<>> /\ parsed = Unused
ValuesUnused ==
    /\ text = <<>>
    /\ number = 0
    /\ symbol = Unused
    /\ constant = Unused
    /\ rendered = Unused
TranslatorUnused ==
    /\ instruction = Unused
    /\ line_number = 0
    /\ file_name = <<>>
    /\ assembly = Unused
LaterUnused ==
    /\ returned = <<>>
    /\ run = Unused
    /\ machine = Unused

InitParser ==
    /\ call = "Parser::parse"
    /\ file \in Files
    /\ parsed = Pending
    /\ ValuesUnused
    /\ TranslatorUnused
    /\ LaterUnused

\* Parser::parse on the contents read
Parse ==
    /\ call = "Parser::parse"
    /\ parsed = Pending
    /\ parsed' = Parser_parse(file)
    /\ UNCHANGED <<laterVars, call, file, valueVars, translatorVars>>

NextParser == Parse

SpecParser == InitParser /\ [][NextParser]_vars

----------------------------------------------------------------------------
(* What the claims about the Parser speak of. *)

\* a line that is neither empty after trimming nor a comment after trimming
Survives(line) ==
    /\ trim(line) # <<>>
    /\ ~(Len(trim(line)) >= 2 /\ trim(line)[1] = "/" /\ trim(line)[2] = "/")

SurvivingLines(contents) == SelectSeq(contents, Survives)

\* the white-space-separated tokens of a line
TokensOf(line) == split_whitespace(trim(line))

\* what the line alone parses to
LineResult(line) == instruction_closure(TokensOf(line))

\* the tokens of the only surviving line of the file parsed
OnlyLine == TokensOf(SurvivingLines(file)[1])

\* Parser::parse has returned and the file has one surviving line, of n tokens
ParsedOneLineOf(n) ==
    /\ parsed # Pending
    /\ Len(SurvivingLines(file)) = 1
    /\ Len(OnlyLine) = n

\* the result of a parse that yields exactly this one instruction
OneInstruction(ins) == Ok(<< <<0, ins>> >>)

\* C1: when a surviving line is rejected, Parser::parse returns the error of
\* the first rejected line in source order and no instructions; it returns
\* instructions only when every surviving line is accepted.
C1_FailFast ==
    parsed # Pending =>
        LET surviving == SurvivingLines(file)
            rejected == {i \in DOMAIN surviving : ~LineResult(surviving[i]).ok}
        IN IF rejected # {}
           THEN LET first == CHOOSE i \in rejected : \A j \in rejected : i <= j
                IN parsed = Err(LineResult(surviving[first]).err)
           ELSE IsOk(parsed)

\* an accepted line, then a rejected one, then one rejected for another reason
C1_Witness ==
    /\ IsErr(parsed)
    /\ Len(SurvivingLines(file)) = 3
    /\ LineResult(SurvivingLines(file)[1]).ok
    /\ ~LineResult(SurvivingLines(file)[2]).ok
    /\ ~LineResult(SurvivingLines(file)[3]).ok
    /\ LineResult(SurvivingLines(file)[2]) # LineResult(SurvivingLines(file)[3])

\* C2: a successful parse holds one instruction per surviving line, in source
\* order, paired with the indices 0, 1, ..., n-1: blank and comment lines
\* produce no instruction and consume no index.
C2_OnePerSurvivingLine ==
    IsOk(parsed) =>
        LET surviving == SurvivingLines(file)
        IN /\ Len(parsed.val) = Len(surviving)
           /\ \A i \in 1..Len(surviving) :
                 /\ parsed.val[i][1] = i - 1
                 /\ Ok(parsed.val[i][2]) = LineResult(surviving[i])

\* a comment, then two commands: the commands get the indices 0 and 1
C2_Witness ==
    /\ IsOk(parsed)
    /\ Len(file) = 3
    /\ ~Survives(file[1])
    /\ Len(parsed.val) = 2
    /\ parsed.val[2][1] = 1

\* C3: a surviving line of one token parses to the matching Arithmetic
\* instruction for add, sub, neg, eq, gt, lt, and, or, not, to Return for
\* return, and fails as unrecognized, carrying the token, for any other token.
C3_OneToken ==
    ParsedOneLineOf(1) =>
        LET token == OnlyLine[1]
        IN CASE token = <<"a", "d", "d">> -> parsed = OneInstruction(ArithmeticInstruction("Add"))
             [] token = <<"s", "u", "b">> -> parsed = OneInstruction(ArithmeticInstruction("Subtract"))
             [] token = <<"n", "e", "g">> -> parsed = OneInstruction(ArithmeticInstruction("Negative"))
             [] token = <<"e", "q">> -> parsed = OneInstruction(ArithmeticInstruction("Equal"))
             [] token = <<"g", "t">> -> parsed = OneInstruction(ArithmeticInstruction("GreaterThan"))
             [] token = <<"l", "t">> -> parsed = OneInstruction(ArithmeticInstruction("Lessthan"))
             [] token = <<"a", "n", "d">> -> parsed = OneInstruction(ArithmeticInstruction("And"))
             [] token = <<"o", "r">> -> parsed = OneInstruction(ArithmeticInstruction("Or"))
             [] token = <<"n", "o", "t">> -> parsed = OneInstruction(ArithmeticInstruction("Not"))
             [] token = <<"r", "e", "t", "u", "r", "n">> -> parsed = OneInstruction(FunctionalInstruction(Return))
             [] OTHER -> parsed = Err(UnrecognizedInstruction(token))

\* the line add, among blank and comment lines, has parsed
C3_Witness ==
    /\ ParsedOneLineOf(1)
    /\ OnlyLine[1] = <<"a", "d", "d">>
    /\ Len(file) > 1
    /\ IsOk(parsed)

\* C4: a surviving line of three tokens whose second token is a valid Symbol
\* and whose third is a valid Constant parses to Push, Pop, Function or Call
\* of that symbol and constant when the first token is push, pop, function or
\* call, and fails for every other first token.
C4_ThreeTokens ==
    /\ (ParsedOneLineOf(3) /\ Symbol_from_str(OnlyLine[2]).ok
            /\ Constant_from_str(OnlyLine[3]).ok) =>
          LET command == OnlyLine[1]
              sym == Symbol_from_str(OnlyLine[2]).val
              value == Constant_from_str(OnlyLine[3]).val
          IN CASE command = <<"p", "u", "s", "h">> ->
                    parsed = OneInstruction(StackManipulationInstruction(
                        [variant |-> "Push", symbol |-> sym, value |-> value]))
               [] command = <<"p", "o", "p">> ->
                    parsed = OneInstruction(StackManipulationInstruction(
                        [variant |-> "Pop", symbol |-> sym, value |-> value]))
               [] command = <<"f", "u", "n", "c", "t", "i", "o", "n">> ->
                    parsed = OneInstruction(FunctionalInstruction(
                        [variant |-> "Function", symbol |-> sym, value |-> value]))
               [] command = <<"c", "a", "l", "l">> ->
                    parsed = OneInstruction(FunctionalInstruction(
                        [variant |-> "Call", symbol |-> sym, value |-> value]))
               [] OTHER -> IsErr(parsed)
    /\ (parsed # Pending /\ file = <<<<"p", "u", "s", "h", " ", "c", "o", "n", "s", "t", "a", "n", "t", " ", "1", "7">>>>) =>
          parsed = OneInstruction(StackManipulationInstruction(
              [variant |-> "Push",
               symbol |-> [literal_representation |-> <<"c", "o", "n", "s", "t", "a", "n", "t">>],
               value |-> [literal_representation |-> 17]]))
    /\ (parsed # Pending /\ file = <<<<"p", "o", "p", " ", "l", "o", "c", "a", "l", " ", "2">>>>) =>
          parsed = OneInstruction(StackManipulationInstruction(
              [variant |-> "Pop",
               symbol |-> [literal_representation |-> <<"l", "o", "c", "a", "l">>],
               value |-> [literal_representation |-> 2]]))

\* the line function Main.f$x:_9 2 has parsed
C4_Witness ==
    /\ ParsedOneLineOf(3)
    /\ OnlyLine = <<<<"f", "u", "n", "c", "t", "i", "o", "n">>, <<"M", "a", "i", "n", ".", "f", "$", "x", ":", "_", "9">>, <<"2">>>>
    /\ IsOk(parsed)

\* C5: a surviving line of two tokens parses to Label, Goto or IfGoto of the
\* second token exactly when that token is a valid Symbol and the first is
\* label, goto or if-goto; with a valid Symbol and any other first token it
\* fails as an unrecognized instruction.
C5_TwoTokens ==
    ParsedOneLineOf(2) =>
        LET command == OnlyLine[1]
            sym == Symbol_from_str(OnlyLine[2])
        IN /\ IsOk(parsed) <=>
                (sym.ok /\ command \in {<<"l", "a", "b", "e", "l">>, <<"g", "o", "t", "o">>, <<"i", "f", "-", "g", "o", "t", "o">>})
           /\ (sym.ok /\ command = <<"l", "a", "b", "e", "l">>) =>
                parsed = OneInstruction(BranchingInstruction(
                    [variant |-> "Label", symbol |-> sym.val]))
           /\ (sym.ok /\ command = <<"g", "o", "t", "o">>) =>
                parsed = OneInstruction(BranchingInstruction(
                    [variant |-> "GoTo", symbol |-> sym.val]))
           /\ (sym.ok /\ command = <<"i", "f", "-", "g", "o", "t", "o">>) =>
                parsed = OneInstruction(BranchingInstruction(
                    [variant |-> "IfGoTo", symbol |-> sym.val]))
           /\ (sym.ok /\ command \notin {<<"l", "a", "b", "e", "l">>, <<"g", "o", "t", "o">>, <<"i", "f", "-", "g", "o", "t", "o">>}) =>
                (IsErr(parsed) /\ parsed.err.kind = "UnrecognizedInstruction")

\* C6: a file whose first surviving line has four or more tokens fails with
\* the illegal-instruction error, whatever the tokens are.
C6_FourOrMoreTokens ==
    (/\ parsed # Pending
     /\ SurvivingLines(file) # <<>>
     /\ Len(TokensOf(SurvivingLines(file)[1])) >= 4) =>
        (IsErr(parsed) /\ parsed.err.kind = "IllegalInstruction")

\* push constant 17 // comment has been rejected
C6_Witness ==
    /\ ParsedOneLineOf(5)
    /\ OnlyLine = <<<<"p", "u", "s", "h">>, <<"c", "o", "n", "s", "t", "a", "n", "t">>, <<"1", "7">>, <<"/", "/">>, <<"c", "o", "m", "m", "e", "n", "t">>>>
    /\ IsErr(parsed)

----------------------------------------------------------------------------
(* Building one Symbol or one Constant. *)

\* the characters of the strings tried as a Symbol: a letter of each case, two
\* digits, the four marks a symbol may hold, and characters it may not hold
SymbolAlphabet ==
    {"a", "Z", "0", "7", "_", ":", ".", "$", "-", "/", " ", NonAscii}

\* the characters of the short strings tried as a Constant
ConstantAlphabet == {"0", "7", "+", "-", "x"}

\* the decimal text of a natural number
RECURSIVE Decimal(_)
Decimal(n) ==
    IF n < 10 THEN <<DigitChar(n)>>
    ELSE Append(Decimal(n \div 10), DigitChar(n % 10))

\* the u16 values tried: around 0, around MAX_VALID_CONSTANT and up to u16::MAX
U16Values ==
    (0..Window)
    \cup ((MAX_VALID_CONSTANT - Window)..(MAX_VALID_CONSTANT + Window))
    \cup ((U16_MAX - Window)..U16_MAX)

\* the integers whose decimal text is tried: those and some beyond u16::MAX
IntegerValues == U16Values \cup ((U16_MAX + 1)..(U16_MAX + Window)) \cup {99999}

SymbolTexts == StringsUpTo(SymbolAlphabet, MaxSymbolLen) \cup SymbolWords
ConstantTexts ==
    StringsUpTo(ConstantAlphabet, MaxConstantLen)
    \cup {Decimal(n) : n \in IntegerValues}
    \cup {<<"0">> \o Decimal(n) : n \in IntegerValues}
    \cup ConstantWords

InitValues ==
    /\ ParserUnused
    /\ TranslatorUnused
    /\ LaterUnused
    /\ rendered = Pending
    /\ \/ call = "Symbol::from_str" /\ text \in SymbolTexts /\ number = 0
          /\ symbol = Pending /\ constant = Unused
       \/ call = "Constant::from_str" /\ text \in ConstantTexts /\ number = 0
          /\ symbol = Unused /\ constant = Pending
       \/ call = "Constant::try_from" /\ text = <<>> /\ number \in U16Values
          /\ symbol = Unused /\ constant = Pending

\* Symbol::from_str(text)
SymbolFromStr ==
    /\ call = "Symbol::from_str"
    /\ symbol = Pending
    /\ symbol' = Symbol_from_str(text)
    /\ UNCHANGED <<laterVars, call, parserVars, text, number, constant, rendered, translatorVars>>

\* the Symbol built is written with Display
SymbolDisplay ==
    /\ IsOk(symbol)
    /\ rendered = Pending
    /\ rendered' = Some(Symbol_fmt(symbol.val))
    /\ UNCHANGED <<laterVars, call, parserVars, text, number, symbol, constant, translatorVars>>

\* Constant::from_str(text)
ConstantFromStr ==
    /\ call = "Constant::from_str"
    /\ constant = Pending
    /\ constant' = Constant_from_str(text)
    /\ UNCHANGED <<laterVars, call, parserVars, text, number, symbol, rendered, translatorVars>>

\* Constant::try_from(number)
ConstantTryFrom ==
    /\ call = "Constant::try_from"
    /\ constant = Pending
    /\ constant' = Constant_try_from(number)
    /\ UNCHANGED <<laterVars, call, parserVars, text, number, symbol, rendered, translatorVars>>

\* the Constant built is written with Display
ConstantDisplay ==
    /\ IsOk(constant)
    /\ rendered = Pending
    /\ rendered' = Some(Constant_fmt(constant.val))
    /\ UNCHANGED <<laterVars, call, parserVars, text, number, symbol, constant, translatorVars>>

NextValues ==
    \/ SymbolFromStr
    \/ SymbolDisplay
    \/ ConstantFromStr
    \/ ConstantTryFrom
    \/ ConstantDisplay

SpecValues == InitValues /\ [][NextValues]_vars

----------------------------------------------------------------------------
(* What the claims about Symbol and Constant speak of. *)

Letters ==
    {"a", "b", "c", "d", "e", "f", "g", "h", "i", "j", "k", "l", "m", "n", "o",
     "p", "q", "r", "s", "t", "u", "v", "w", "x", "y", "z",
     "A", "B", "C", "D", "E", "F", "G", "H", "I", "J", "K", "L", "M", "N", "O",
     "P", "Q", "R", "S", "T", "U", "V", "W", "X", "Y", "Z"}
Digits == {"0", "1", "2", "3", "4", "5", "6", "7", "8", "9"}

\* the text is one or more decimal digits
IsDecimal(s) == s # <<>> /\ \A i \in DOMAIN s : s[i] \in Digits

\* the integer a decimal text denotes
RECURSIVE DecimalValue(_)
DecimalValue(s) ==
    IF s = <<>> THEN 0
    ELSE 10 * DecimalValue(SubSeq(s, 1, Len(s) - 1)) + DigitValue(s[Len(s)])

\* the text holds something a number does not: no digit at all, or a
\* character that is neither a digit nor a leading sign
NonNumeric(s) ==
    \/ \A i \in DOMAIN s : s[i] \notin Digits
    \/ \E i \in DOMAIN s : s[i] \notin Digits /\ ~(i = 1 /\ s[i] \in {"+", "-"})

\* C7: building a Constant from an integer n > 32767, given as an integer or
\* as its decimal text, fails with the overflow error; non-numeric text fails
\* with the format error.
C7_OverflowAbove32767 ==
    constant # Pending =>
        /\ (call = "Constant::try_from" /\ number > 32767) =>
              constant = Err(Overflow)
        /\ (call = "Constant::from_str" /\ IsDecimal(text)
                /\ DecimalValue(text) > 32767) =>
              constant = Err(Overflow)
        /\ (call = "Constant::from_str" /\ NonNumeric(text)) =>
              (IsErr(constant) /\ constant.err.kind = "FromStrError")

\* C8: Symbol::from_str accepts a string exactly when it is not empty, holds
\* only ASCII letters, digits, underscore, colon, period and dollar sign, and
\* does not begin with a digit; any other string fails with the
\* malformed-symbol error; an accepted Symbol renders to the string it was
\* built from.
C8_SymbolRule ==
    (call = "Symbol::from_str" /\ symbol # Pending) =>
        LET allowed ==
                /\ Len(text) > 0
                /\ \A i \in 1..Len(text) :
                      text[i] \in Letters \cup Digits \cup {"_", ":", ".", "$"}
                /\ text[1] \notin Digits
        IN /\ IsOk(symbol) <=> allowed
           /\ ~allowed => symbol = Err([kind |-> "SymbolHasForbiddenCharacter"])
           /\ (IsOk(symbol) /\ rendered # Pending) => rendered = Some(text)

\* a Symbol that holds a digit, but not first, and every mark has been built
\* and rendered
C8_Witness ==
    /\ IsOk(symbol)
    /\ text = <<"M", "a", "i", "n", ".", "f", "$", "x", ":", "_", "9">>
    /\ rendered = Some(text)

----------------------------------------------------------------------------
(* Segment and Translator (src/lib/translator.rs). *)

TEMP_BASE == 5
\* a mutant: the last temp cell is taken one too far
TEMP_MAX_one_more == 12 + 1
TEMP_MAX == 12
GENERAL_REGISTERS == 13..15

\* usize and u8 as core::fmt::Display writes them
\* a mutant: only the last digit is written
usize_fmt_last_digit(n) == <<DigitChar(n % 10)>>

RECURSIVE usize_fmt(_)
usize_fmt(n) ==
    IF n < 10 THEN <<DigitChar(n)>>
    ELSE Append(usize_fmt(n \div 10), DigitChar(n % 10))

\* a mutant: a name that is no segment is taken for static
Segment_try_from_else_static(value) ==
    LET bad == value.literal_representation
    IN CASE bad = <<"c", "o", "n", "s", "t", "a", "n", "t">> -> Ok("Constant")
         [] bad = <<"l", "o", "c", "a", "l">> -> Ok("Local")
         [] bad = <<"a", "r", "g", "u", "m", "e", "n", "t">> -> Ok("Argument")
         [] bad = <<"t", "h", "i", "s">> -> Ok("This")
         [] bad = <<"t", "h", "a", "t">> -> Ok("That")
         [] bad = <<"s", "t", "a", "t", "i", "c">> -> Ok("Static")
         [] bad = <<"t", "e", "m", "p">> -> Ok("Temp")
         [] bad = <<"p", "o", "i", "n", "t", "e", "r">> -> Ok("Pointer")
         [] OTHER -> Ok("Static")

\* impl TryFrom<&Symbol> for Segment
Segment_try_from(value) ==
    LET bad == value.literal_representation
    IN CASE bad = <<"c", "o", "n", "s", "t", "a", "n", "t">> -> Ok("Constant")
         [] bad = <<"l", "o", "c", "a", "l">> -> Ok("Local")
         [] bad = <<"a", "r", "g", "u", "m", "e", "n", "t">> -> Ok("Argument")
         [] bad = <<"t", "h", "i", "s">> -> Ok("This")
         [] bad = <<"t", "h", "a", "t">> -> Ok("That")
         [] bad = <<"s", "t", "a", "t", "i", "c">> -> Ok("Static")
         [] bad = <<"t", "e", "m", "p">> -> Ok("Temp")
         [] bad = <<"p", "o", "i", "n", "t", "e", "r">> -> Ok("Pointer")
         [] OTHER -> Err(FromStrError(<<"\"">> \o bad
                                      \o <<"\" is not a recognized segment">>))

\* Segment::base
Segment_base(segment) ==
    CASE segment = "Local" -> Ok(<<"L", "C", "L">>)
      [] segment = "Argument" -> Ok(<<"A", "R", "G">>)
      [] segment = "This" -> Ok(<<"T", "H", "I", "S">>)
      [] segment = "That" -> Ok(<<"T", "H", "A", "T">>)
      [] OTHER -> Err(Internal)

\* the message of an index outside a segment
not_a_valid_index(i) ==
    <<"\"">> \o Constant_fmt(i)
        \o <<"\" is not a valid index for temp, must be ">> \o u16_fmt(0)
        \o <<" <= i <= ">> \o u16_fmt(TEMP_MAX - TEMP_BASE)

\* a mutant: subtraction is taken for a comparison
Translator_arithmetic_sub_compares(op, line) ==
    IF op \in {"Negative", "Not"}
    THEN <<<<"@", "S", "P">>, <<"A", "=", "M", "-", "1">>, <<"M", "=">> \o identify(op)[2] \o <<"M">>>>
    ELSE LET common == <<<<"@", "S", "P">>, <<"A", "M", "=", "M", "-", "1">>, <<"D", "=", "M">>, <<"A", "=", "A", "-", "1">>>>
             unique ==
                 CASE op \in {"Lessthan", "GreaterThan", "Equal", "Subtract"} ->
                        <<<<"D", "=", "M", "-", "D">>,
                          <<"@", "C", "R", "A", "S", "H", "_">> \o usize_fmt(line),
                          <<"D", ";">> \o identify(op)[2],
                          <<"@", "S", "P">>,
                          <<"A", "=", "M", "-", "1">>,
                          <<"M", "=", "0">>,
                          <<"@", "B", "U", "R", "N", "_">> \o usize_fmt(line),
                          <<"0", ";", "J", "M", "P">>,
                          <<"(", "C", "R", "A", "S", "H", "_">> \o usize_fmt(line) \o <<")">>,
                          <<"@", "S", "P">>,
                          <<"A", "=", "M", "-", "1">>,
                          <<"M", "=", "-", "1">>,
                          <<"(", "B", "U", "R", "N", "_">> \o usize_fmt(line) \o <<")">>>>
                   [] op \in {"And", "Add", "Or"} ->
                        <<<<"M", "=", "D">> \o identify(op)[2] \o <<"M">>>>
         IN common \o unique

\* a mutant: sub is combined as the commutative operations are, D - M
Translator_arithmetic_sub_swapped(op, line) ==
    IF op \in {"Negative", "Not"}
    THEN <<<<"@", "S", "P">>, <<"A", "=", "M", "-", "1">>, <<"M", "=">> \o identify(op)[2] \o <<"M">>>>
    ELSE LET common == <<<<"@", "S", "P">>, <<"A", "M", "=", "M", "-", "1">>, <<"D", "=", "M">>, <<"A", "=", "A", "-", "1">>>>
             unique ==
                 CASE op \in {"Lessthan", "GreaterThan", "Equal"} ->
                        <<<<"D", "=", "M", "-", "D">>,
                          <<"@", "C", "R", "A", "S", "H", "_">> \o usize_fmt(line),
                          <<"D", ";">> \o identify(op)[2],
                          <<"@", "S", "P">>,
                          <<"A", "=", "M", "-", "1">>,
                          <<"M", "=", "0">>,
                          <<"@", "B", "U", "R", "N", "_">> \o usize_fmt(line),
                          <<"0", ";", "J", "M", "P">>,
                          <<"(", "C", "R", "A", "S", "H", "_">> \o usize_fmt(line) \o <<")">>,
                          <<"@", "S", "P">>,
                          <<"A", "=", "M", "-", "1">>,
                          <<"M", "=", "-", "1">>,
                          <<"(", "B", "U", "R", "N", "_">> \o usize_fmt(line) \o <<")">>>>
                   [] op \in {"And", "Add", "Or", "Subtract"} ->
                        <<<<"M", "=", "D">> \o identify(op)[2] \o <<"M">>>>
         IN common \o unique

\* a mutant: neg and not pop their operand as the binary operations do
Translator_arithmetic_unary_pops(op, line) ==
    IF op \in {"Negative", "Not"}
    THEN <<<<"@", "S", "P">>, <<"A", "M", "=", "M", "-", "1">>, <<"M", "=">> \o identify(op)[2] \o <<"M">>>>
    ELSE LET common == <<<<"@", "S", "P">>, <<"A", "M", "=", "M", "-", "1">>, <<"D", "=", "M">>, <<"A", "=", "A", "-", "1">>>>
             unique ==
                 CASE op \in {"Lessthan", "GreaterThan", "Equal"} ->
                        <<<<"D", "=", "M", "-", "D">>,
                          <<"@", "C", "R", "A", "S", "H", "_">> \o usize_fmt(line),
                          <<"D", ";">> \o identify(op)[2],
                          <<"@", "S", "P">>,
                          <<"A", "=", "M", "-", "1">>,
                          <<"M", "=", "0">>,
                          <<"@", "B", "U", "R", "N", "_">> \o usize_fmt(line),
                          <<"0", ";", "J", "M", "P">>,
                          <<"(", "C", "R", "A", "S", "H", "_">> \o usize_fmt(line) \o <<")">>,
                          <<"@", "S", "P">>,
                          <<"A", "=", "M", "-", "1">>,
                          <<"M", "=", "-", "1">>,
                          <<"(", "B", "U", "R", "N", "_">> \o usize_fmt(line) \o <<")">>>>
                   [] op \in {"And", "Add", "Or"} ->
                        <<<<"M", "=", "D">> \o identify(op)[2] \o <<"M">>>>
                   [] op = "Subtract" ->
                        <<<<"M", "=", "M">> \o identify(op)[2] \o <<"D">>>>
         IN common \o unique

\* Translator::arithmetic
Translator_arithmetic(op, line) ==
    IF op \in {"Negative", "Not"}
    THEN <<<<"@", "S", "P">>, <<"A", "=", "M", "-", "1">>, <<"M", "=">> \o identify(op)[2] \o <<"M">>>>
    ELSE LET common == <<<<"@", "S", "P">>, <<"A", "M", "=", "M", "-", "1">>, <<"D", "=", "M">>, <<"A", "=", "A", "-", "1">>>>
             unique ==
                 CASE op \in {"Lessthan", "GreaterThan", "Equal"} ->
                        <<<<"D", "=", "M", "-", "D">>,
                          <<"@", "C", "R", "A", "S", "H", "_">> \o usize_fmt(line),
                          <<"D", ";">> \o identify(op)[2],
                          <<"@", "S", "P">>,
                          <<"A", "=", "M", "-", "1">>,
                          <<"M", "=", "0">>,
                          <<"@", "B", "U", "R", "N", "_">> \o usize_fmt(line),
                          <<"0", ";", "J", "M", "P">>,
                          <<"(", "C", "R", "A", "S", "H", "_">> \o usize_fmt(line) \o <<")">>,
                          <<"@", "S", "P">>,
                          <<"A", "=", "M", "-", "1">>,
                          <<"M", "=", "-", "1">>,
                          <<"(", "B", "U", "R", "N", "_">> \o usize_fmt(line) \o <<")">>>>
                   [] op \in {"And", "Add", "Or"} ->
                        <<<<"M", "=", "D">> \o identify(op)[2] \o <<"M">>>>
                   [] op = "Subtract" ->
                        <<<<"M", "=", "M">> \o identify(op)[2] \o <<"D">>>>
         IN common \o unique

\* a mutant: the stack pointer is advanced before the data register is
\* written
push_from_data_register_advances_first == <<<<"@", "S", "P">>, <<"M", "=", "M", "+", "1">>, <<"A", "=", "M">>, <<"M", "=", "D">>, <<"@", "S", "P">>>>

\* Translator::push_from_data_register
push_from_data_register == <<<<"@", "S", "P">>, <<"A", "=", "M">>, <<"M", "=", "D">>, <<"@", "S", "P">>, <<"M", "=", "M", "+", "1">>>>

\* a mutant: every pointer index but 0 is taken for THAT
Translator_push_pointer_else_that(segment, i, name) ==
    LET unique ==
            CASE segment = "Constant" ->
                    Ok(<<<<"@">> \o Constant_fmt(i), <<"D", "=", "A">>>>)
              [] segment \in {"Argument", "This", "That", "Local"} ->
                    LET base == Segment_base(segment)
                    IN IF base.ok
                       THEN Ok(<<<<"@">> \o Constant_fmt(i),
                                 <<"D", "=", "A">>,
                                 <<"@">> \o base.val,
                                 <<"A", "=", "D", "+", "M">>,
                                 <<"D", "=", "M">>>>)
                       ELSE Err(base.err)
              [] segment = "Static" ->
                    Ok(<<<<"@">> \o name \o <<".">> \o Constant_fmt(i), <<"D", "=", "M">>>>)
              [] segment = "Temp" ->
                    LET address == i.literal_representation + TEMP_BASE
                    IN IF address \in TEMP_BASE..TEMP_MAX
                       THEN Ok(<<<<"@">> \o u16_fmt(address), <<"D", "=", "M">>>>)
                       ELSE Err(IllegalInstruction(not_a_valid_index(i)))
              [] segment = "Pointer" ->
                    (CASE i.literal_representation = 0 ->
                            Ok(<<<<"@", "T", "H", "I", "S">>, <<"D", "=", "M">>>>)
                       [] OTHER ->
                            Ok(<<<<"@", "T", "H", "A", "T">>, <<"D", "=", "M">>>>))
    IN IF unique.ok THEN Ok(unique.val \o push_from_data_register)
       ELSE Err(unique.err)

\* Translator::push
Translator_push(segment, i, name) ==
    LET unique ==
            CASE segment = "Constant" ->
                    Ok(<<<<"@">> \o Constant_fmt(i), <<"D", "=", "A">>>>)
              [] segment \in {"Argument", "This", "That", "Local"} ->
                    LET base == Segment_base(segment)
                    IN IF base.ok
                       THEN Ok(<<<<"@">> \o Constant_fmt(i),
                                 <<"D", "=", "A">>,
                                 <<"@">> \o base.val,
                                 <<"A", "=", "D", "+", "M">>,
                                 <<"D", "=", "M">>>>)
                       ELSE Err(base.err)
              [] segment = "Static" ->
                    Ok(<<<<"@">> \o name \o <<".">> \o Constant_fmt(i), <<"D", "=", "M">>>>)
              [] segment = "Temp" ->
                    LET address == i.literal_representation + TEMP_BASE
                    IN IF address \in TEMP_BASE..TEMP_MAX
                       THEN Ok(<<<<"@">> \o u16_fmt(address), <<"D", "=", "M">>>>)
                       ELSE Err(IllegalInstruction(not_a_valid_index(i)))
              [] segment = "Pointer" ->
                    (CASE i.literal_representation = 0 ->
                            Ok(<<<<"@", "T", "H", "I", "S">>, <<"D", "=", "M">>>>)
                       [] i.literal_representation = 1 ->
                            Ok(<<<<"@", "T", "H", "A", "T">>, <<"D", "=", "M">>>>)
                       [] OTHER -> Err(IllegalInstruction(not_a_valid_index(i))))
    IN IF unique.ok THEN Ok(unique.val \o push_from_data_register)
       ELSE Err(unique.err)

\* a mutant: the data register is saved in the register after the one asked
save_data_register_in_general_next(n) ==
    IF n \in GENERAL_REGISTERS
    THEN Ok(<<<<"@", "R">> \o usize_fmt(n + 1), <<"M", "=", "D">>>>)
    ELSE Err(Internal)

\* Translator::save_data_register_in_general
save_data_register_in_general(n) ==
    IF n \in GENERAL_REGISTERS
    THEN Ok(<<<<"@", "R">> \o usize_fmt(n), <<"M", "=", "D">>>>)
    ELSE Err(Internal)

\* Translator::pop_to_general
pop_to_general(n) ==
    IF n \in GENERAL_REGISTERS
    THEN Ok(<<<<"@", "S", "P">>, <<"A", "M", "=", "M", "-", "1">>, <<"D", "=", "M">>, <<"@", "R">> \o usize_fmt(n), <<"A", "=", "M">>,
              <<"M", "=", "D">>>>)
    ELSE Err(Internal)

\* Translator::pop
Translator_pop(segment, i, name) ==
    LET unique ==
            CASE segment \in {"That", "Local", "Argument", "This"} ->
                    LET base == Segment_base(segment)
                    IN IF base.ok
                       THEN Ok(<<<<"@">> \o Constant_fmt(i),
                                 <<"D", "=", "A">>,
                                 <<"@">> \o base.val,
                                 <<"D", "=", "D", "+", "M">>>>)
                       ELSE Err(base.err)
              [] segment = "Static" ->
                    Ok(<<<<"@">> \o name \o <<".">> \o Constant_fmt(i), <<"D", "=", "A">>>>)
              [] segment = "Temp" ->
                    LET address == i.literal_representation + TEMP_BASE
                    IN IF address \in TEMP_BASE..TEMP_MAX
                       THEN Ok(<<<<"@">> \o u16_fmt(address), <<"D", "=", "A">>>>)
                       ELSE Err(IllegalInstruction(not_a_valid_index(i)))
              [] segment = "Pointer" ->
                    (CASE i.literal_representation = 0 ->
                            Ok(<<<<"@", "T", "H", "I", "S">>, <<"D", "=", "A">>>>)
                       [] i.literal_representation = 1 ->
                            Ok(<<<<"@", "T", "H", "A", "T">>, <<"D", "=", "A">>>>)
                       [] OTHER -> Err(IllegalInstruction(not_a_valid_index(i))))
              [] segment = "Constant" ->
                    Err(IllegalInstruction(
                        <<"\"pop constant n\" is never a valid instruction, regardless of the value of n">>))
        saved == save_data_register_in_general(13)
        popped == pop_to_general(13)
    IN CASE ~unique.ok -> Err(unique.err)
         [] unique.ok /\ ~saved.ok -> Err(saved.err)
         [] unique.ok /\ saved.ok /\ ~popped.ok -> Err(popped.err)
         [] OTHER -> Ok(unique.val \o saved.val \o popped.val)

\* a panic: the call does not return to its caller
Panic(message) == [panic |-> message]
IsPanic(r) == "panic" \in DOMAIN r

\* a mutant: the labels are numbered by a count of the calls made so far
Translator_translate_counting(line, ins, name) ==
    CASE ins.family = "StackManipulation" ->
            LET seg == Segment_try_from(ins.of.symbol)
            IN IF ~seg.ok THEN Err(seg.err)
               ELSE IF ins.of.variant = "Push"
                    THEN Translator_push(seg.val, ins.of.value, name)
                    ELSE Translator_pop(seg.val, ins.of.value, name)
      [] ins.family = "Branching" -> Panic("not yet implemented")
      [] ins.family = "Functional" -> Panic("not yet implemented")
      [] ins.family = "Arithmetic" ->
            Ok(Translator_arithmetic(ins.of, Len(returned)))

\* a mutant: a pop is translated as the push of its segment
Translator_translate_pop_as_push(line, ins, name) ==
    CASE ins.family = "StackManipulation" ->
            LET seg == Segment_try_from(ins.of.symbol)
            IN IF ~seg.ok THEN Err(seg.err)
               ELSE Translator_push(seg.val, ins.of.value, name)
      [] ins.family = "Branching" -> Panic("not yet implemented")
      [] ins.family = "Functional" -> Panic("not yet implemented")
      [] ins.family = "Arithmetic" -> Ok(Translator_arithmetic(ins.of, line))

\* Translator::translate
Translator_translate(line, ins, name) ==
    CASE ins.family = "StackManipulation" ->
            LET seg == Segment_try_from(ins.of.symbol)
            IN IF ~seg.ok THEN Err(seg.err)
               ELSE IF ins.of.variant = "Push"
                    THEN Translator_push(seg.val, ins.of.value, name)
                    ELSE Translator_pop(seg.val, ins.of.value, name)
      [] ins.family = "Branching" -> Panic("not yet implemented")
      [] ins.family = "Functional" -> Panic("not yet implemented")
      [] ins.family = "Arithmetic" -> Ok(Translator_arithmetic(ins.of, line))

----------------------------------------------------------------------------
(* Translating one instruction. *)

\* the index values tried: across the temp and pointer ranges and up to the
\* largest Constant
IndexValues ==
    (0..(TEMP_MAX - TEMP_BASE + Window))
    \cup ((MAX_VALID_CONSTANT - Window)..MAX_VALID_CONSTANT)

\* the symbols tried as a segment: the eight names and two that are none
SegmentSymbols ==
    {<<"c", "o", "n", "s", "t", "a", "n", "t">>, <<"l", "o", "c", "a", "l">>, <<"a", "r", "g", "u", "m", "e", "n", "t">>, <<"t", "h", "i", "s">>, <<"t", "h", "a", "t">>, <<"s", "t", "a", "t", "i", "c">>,
     <<"t", "e", "m", "p">>, <<"p", "o", "i", "n", "t", "e", "r">>, <<"M", "a", "i", "n", ".", "f", "$", "x", ":", "_", "9">>, <<"T", "e", "m", "p">>}

\* the symbols tried as the name of a label or of a function
NameSymbols == {<<"L", "O", "O", "P">>, <<"M", "a", "i", "n", ".", "f", "$", "x", ":", "_", "9">>}

\* the file stems tried
FileNames == {<<"F", "o", "o">>, <<"M", "a", "i", "n", ".", "f">>}

\* what Symbol::from_str and Constant::try_from build
SymbolOf(s) == Symbol_from_str(s).val
ConstantOf(n) == Constant_try_from(n).val

\* the instructions the Parser produces
Instructions ==
    {ArithmeticInstruction(op) : op \in ArithmeticOps}
    \cup {StackManipulationInstruction(Push(SymbolOf(s), ConstantOf(n))) :
            s \in SegmentSymbols, n \in IndexValues}
    \cup {StackManipulationInstruction(Pop(SymbolOf(s), ConstantOf(n))) :
            s \in SegmentSymbols, n \in IndexValues}
    \cup {BranchingInstruction(Label(SymbolOf(s))) : s \in NameSymbols}
    \cup {BranchingInstruction(GoTo(SymbolOf(s))) : s \in NameSymbols}
    \cup {BranchingInstruction(IfGoTo(SymbolOf(s))) : s \in NameSymbols}
    \cup {FunctionalInstruction(Function(SymbolOf(s), ConstantOf(n))) :
            s \in NameSymbols, n \in 0..Window}
    \cup {FunctionalInstruction(Call(SymbolOf(s), ConstantOf(n))) :
            s \in NameSymbols, n \in 0..Window}
    \cup {FunctionalInstruction(Return)}

InitTranslator ==
    /\ call = "Translator::translate"
    /\ ParserUnused
    /\ ValuesUnused
    /\ LaterUnused
    /\ instruction \in Instructions
    /\ line_number \in 0..MaxLineNumber
    /\ file_name \in FileNames
    /\ assembly = Pending

\* Translator::translate(line_number, &instruction, file_name)
Translate ==
    /\ call = "Translator::translate"
    /\ assembly = Pending
    /\ assembly' = Translator_translate(line_number, instruction, file_name)
    /\ UNCHANGED <<laterVars, call, parserVars, valueVars, instruction, line_number,
                   file_name>>

NextTranslator == Translate

SpecTranslator == InitTranslator /\ [][NextTranslator]_vars

----------------------------------------------------------------------------
(* What the claims about the Translator speak of. *)

\* the symbols the assembler predefines
PredefinedSymbols ==
    {<<"S", "P">>, <<"L", "C", "L">>, <<"A", "R", "G">>, <<"T", "H", "I", "S">>, <<"T", "H", "A", "T">>, <<"S", "C", "R", "E", "E", "N">>, <<"K", "B", "D">>}
    \cup {<<"R">> \o Decimal(n) : n \in 0..15}

\* the line is a label definition, (NAME)
DefinesLabel(line) == line # <<>> /\ line[1] = "("

\* the line is an address instruction naming a symbol that is neither a
\* number nor predefined: a label or a variable
ReferencesLabel(line) ==
    /\ line # <<>>
    /\ line[1] = "@"
    /\ ~IsDecimal(Tail(line))
    /\ Tail(line) \notin PredefinedSymbols

\* the line jumps
Jumps(line) == \E i \in DOMAIN line : line[i] = ";"

\* C9: for every Instruction the Parser produces, of all four families,
\* Translator::translate returns the assembly lines or an error to its caller.
C9_TranslateReturns ==
    (call = "Translator::translate" /\ assembly # Pending) =>
        (IsOk(assembly) \/ IsErr(assembly))

\* C10: translating add, sub, and, or at any line index yields 5 lines, the
\* 4 setup lines and 1 combine line, none of which defines or references a
\* label, and the same lines for every line index.
C10_BinaryFiveLines ==
    (/\ call = "Translator::translate"
     /\ assembly # Pending
     /\ instruction \in {ArithmeticInstruction(op) :
                            op \in {"Add", "Subtract", "And", "Or"}}) =>
        /\ IsOk(assembly)
        /\ Len(assembly.val) = 5
        /\ SubSeq(assembly.val, 1, 4) = <<<<"@", "S", "P">>, <<"A", "M", "=", "M", "-", "1">>, <<"D", "=", "M">>, <<"A", "=", "A", "-", "1">>>>
        /\ assembly.val[5] =
              (CASE instruction.of = "Add" -> <<"M", "=", "D", "+", "M">>
                 [] instruction.of = "Subtract" -> <<"M", "=", "M", "-", "D">>
                 [] instruction.of = "And" -> <<"M", "=", "D", "&", "M">>
                 [] instruction.of = "Or" -> <<"M", "=", "D", "|", "M">>)
        /\ \A i \in 1..Len(assembly.val) :
              /\ ~DefinesLabel(assembly.val[i])
              /\ ~ReferencesLabel(assembly.val[i])
              /\ ~Jumps(assembly.val[i])
        /\ \A k \in 0..MaxLineNumber :
              Translator_translate(k, instruction, file_name) = assembly

\* sub has been translated at a line index of two digits
C10_Witness ==
    /\ call = "Translator::translate"
    /\ instruction = ArithmeticInstruction("Subtract")
    /\ line_number > 9
    /\ IsOk(assembly)
    /\ Len(assembly.val) = 5

----------------------------------------------------------------------------
(* The labels of the comparisons. *)

\* the names the lines define as labels, and the ones they reference
LabelsDefined(lines) ==
    {SubSeq(lines[i], 2, Len(lines[i]) - 1) :
        i \in {j \in DOMAIN lines : DefinesLabel(lines[j])}}
LabelsReferenced(lines) ==
    {Tail(lines[i]) : i \in {j \in DOMAIN lines : ReferencesLabel(lines[j])}}
Labels(lines) == LabelsDefined(lines) \cup LabelsReferenced(lines)

\* sub occurs in s
Contains(s, sub) ==
    \E i \in 0..(Len(s) - Len(sub)) : SubSeq(s, i + 1, i + Len(sub)) = sub

Comparisons ==
    {ArithmeticInstruction(op) : op \in {"Equal", "GreaterThan", "Lessthan"}}

\* C11: translating eq, gt or lt at line index k emits label definitions and
\* label references that all contain the literal index k (each label is a
\* name followed by "_" and the decimal k), and the labels emitted at k are
\* disjoint from the labels emitted at any other index k'.
C11_LabelsCarryTheIndex ==
    (/\ call = "Translator::translate"
     /\ assembly # Pending
     /\ instruction \in Comparisons) =>
        /\ IsOk(assembly)
        /\ LabelsDefined(assembly.val) # {}
        /\ LabelsReferenced(assembly.val) = LabelsDefined(assembly.val)
        /\ \A l \in Labels(assembly.val) :
              /\ Contains(l, Decimal(line_number))
              /\ \E stem \in {<<"C", "R", "A", "S", "H">>, <<"B", "U", "R", "N">>} :
                    l = stem \o <<"_">> \o Decimal(line_number)
        /\ \A k \in 0..MaxLineNumber :
              k # line_number =>
                 LET other == Translator_translate(k, instruction, file_name)
                 IN /\ IsOk(other)
                    /\ Labels(other.val) \cap Labels(assembly.val) = {}

\* gt has been translated at index 1, the last digit of index 11
C11_Witness ==
    /\ call = "Translator::translate"
    /\ instruction = ArithmeticInstruction("GreaterThan")
    /\ line_number = 1
    /\ IsOk(assembly)
    /\ Cardinality(Labels(assembly.val)) = 2

----------------------------------------------------------------------------
(* The segments of push and pop. *)

\* the instruction translated is a push or a pop, of the segment named
IsStack(variant, name) ==
    /\ call = "Translator::translate"
    /\ assembly # Pending
    /\ instruction.family = "StackManipulation"
    /\ instruction.of.variant = variant
    /\ instruction.of.symbol = SymbolOf(name)

\* the index of the push or pop translated
Index == instruction.of.value.literal_representation

\* the illegal-instruction error of an index out of a fixed segment's range
IllegalIndex(i) == Err(IllegalInstruction(not_a_valid_index(i)))

\* C12: for the temp segment, push and pop succeed exactly for the indices
\* 0..7 and then address the fixed cell 5 + index (index 7 is address 12);
\* for every index from 8 to 32767 they fail with the illegal-instruction
\* error.
C12_TempRange ==
    (IsStack("Push", <<"t", "e", "m", "p">>) \/ IsStack("Pop", <<"t", "e", "m", "p">>)) =>
        /\ IsOk(assembly) <=> Index \in 0..7
        /\ IsOk(assembly) =>
              /\ assembly.val[1] = <<"@">> \o Decimal(5 + Index)
              /\ \A j \in 2..Len(assembly.val) :
                    assembly.val[j][1] = "@" =>
                       assembly.val[j] \in {<<"@", "S", "P">>, <<"@", "R", "1", "3">>}
              /\ assembly.val[2] =
                    (IF instruction.of.variant = "Push" THEN <<"D", "=", "M">> ELSE <<"D", "=", "A">>)
        /\ Index > 7 =>
              /\ assembly = IllegalIndex(instruction.of.value)
              /\ assembly.err.kind = "IllegalInstruction"

\* push temp 7 has been translated to a load of address 12
C12_Witness ==
    /\ IsStack("Push", <<"t", "e", "m", "p">>)
    /\ Index = 7
    /\ IsOk(assembly)
    /\ assembly.val[1] = <<"@", "1", "2">>

\* C13: translating Pop with the segment constant fails with the
\* illegal-instruction error for every index 0..32767, every line index and
\* every file name, and emits no assembly.
C13_PopConstantFails ==
    IsStack("Pop", <<"c", "o", "n", "s", "t", "a", "n", "t">>) =>
        /\ IsErr(assembly)
        /\ assembly.err.kind = "IllegalInstruction"
        /\ ~IsOk(assembly)
        /\ \A k \in 0..MaxLineNumber, name \in FileNames, n \in IndexValues :
              LET r == Translator_translate(k,
                          StackManipulationInstruction(
                              Pop(SymbolOf(<<"c", "o", "n", "s", "t", "a", "n", "t">>), ConstantOf(n))), name)
              IN IsErr(r) /\ r.err.kind = "IllegalInstruction"

\* pop constant 32767 has failed at a line index other than 0
C13_Witness ==
    /\ IsStack("Pop", <<"c", "o", "n", "s", "t", "a", "n", "t">>)
    /\ Index = MAX_VALID_CONSTANT
    /\ line_number > 0
    /\ IsErr(assembly)
    /\ assembly.err.kind = "IllegalInstruction"

\* the push and the pop of a segment symbol and an index
PushOf(sym, value) == StackManipulationInstruction(Push(sym, value))
PopOf(sym, value) == StackManipulationInstruction(Pop(sym, value))

\* C14: for the pointer segment, index 0 addresses THIS and index 1 THAT, for
\* push (a load of its content) and for pop (its address); every other index
\* fails with the illegal-instruction error; and for every (segment, index)
\* other than the constant segment, Pop fails exactly when Push fails and
\* with the same error.
C14_PointerAndPushPopAgree ==
    /\ (IsStack("Push", <<"p", "o", "i", "n", "t", "e", "r">>) \/ IsStack("Pop", <<"p", "o", "i", "n", "t", "e", "r">>)) =>
          /\ IsOk(assembly) <=> Index \in {0, 1}
          /\ IsOk(assembly) =>
                /\ assembly.val[1] = (IF Index = 0 THEN <<"@", "T", "H", "I", "S">> ELSE <<"@", "T", "H", "A", "T">>)
                /\ assembly.val[2] =
                      (IF instruction.of.variant = "Push" THEN <<"D", "=", "M">> ELSE <<"D", "=", "A">>)
          /\ Index \notin {0, 1} =>
                /\ IsErr(assembly)
                /\ assembly.err.kind = "IllegalInstruction"
    /\ (/\ call = "Translator::translate"
        /\ assembly # Pending
        /\ instruction.family = "StackManipulation"
        /\ instruction.of.variant = "Pop"
        /\ instruction.of.symbol # SymbolOf(<<"c", "o", "n", "s", "t", "a", "n", "t">>)) =>
          LET pushed == Translator_translate(line_number,
                           PushOf(instruction.of.symbol, instruction.of.value),
                           file_name)
          IN /\ IsErr(assembly) <=> IsErr(pushed)
             /\ IsErr(assembly) => assembly = pushed

\* pop pointer 2 has failed
C14_Witness ==
    /\ IsStack("Pop", <<"p", "o", "i", "n", "t", "e", "r">>)
    /\ Index = 2
    /\ IsErr(assembly)
    /\ assembly.err.kind = "IllegalInstruction"

\* the Parser's reading of the one line that writes the instruction out
ParsedFromText(ins) ==
    Parser_parse(<<(IF ins.of.variant = "Push" THEN PUSH ELSE POP)
                     \o <<" ">> \o Symbol_fmt(ins.of.symbol)
                     \o <<" ">> \o Constant_fmt(ins.of.value)>>)

SegmentNames ==
    {<<"c", "o", "n", "s", "t", "a", "n", "t">>, <<"l", "o", "c", "a", "l">>, <<"a", "r", "g", "u", "m", "e", "n", "t">>, <<"t", "h", "i", "s">>, <<"t", "h", "a", "t">>, <<"s", "t", "a", "t", "i", "c">>,
     <<"t", "e", "m", "p">>, <<"p", "o", "i", "n", "t", "e", "r">>}

\* C18: translating a Push or Pop whose segment Symbol is not one of the
\* eight names fails with an error and emits no assembly, for every index,
\* although the Parser accepts such a line; for the segments constant (push
\* only), local, argument, this, that and static, translation succeeds for
\* every index 0..32767.
C18_SegmentNames ==
    (/\ call = "Translator::translate"
     /\ assembly # Pending
     /\ instruction.family = "StackManipulation") =>
        LET name == instruction.of.symbol.literal_representation
        IN /\ name \notin SegmentNames =>
                 /\ IsErr(assembly)
                 /\ ParsedFromText(instruction) = OneInstruction(instruction)
           /\ (\/ name \in {<<"l", "o", "c", "a", "l">>, <<"a", "r", "g", "u", "m", "e", "n", "t">>, <<"t", "h", "i", "s">>, <<"t", "h", "a", "t">>, <<"s", "t", "a", "t", "i", "c">>}
               \/ (name = <<"c", "o", "n", "s", "t", "a", "n", "t">> /\ instruction.of.variant = "Push")) =>
                 /\ IsOk(assembly)
                 /\ Len(assembly.val) > 0

\* push Temp 0, whose segment is no segment's name, has failed
C18_Witness ==
    /\ IsStack("Push", <<"T", "e", "m", "p">>)
    /\ Index = 0
    /\ IsErr(assembly)
    /\ ParsedFromText(instruction) = OneInstruction(instruction)

----------------------------------------------------------------------------
(* Calls of Translator::translate, one after another. *)

\* how many calls a behaviour makes
MaxCalls == 3

\* the instructions the calls are made with: every family of output, a
\* failure and a panic among them
CalledInstructions ==
    {ArithmeticInstruction("Equal"),
     ArithmeticInstruction("Add"),
     PushOf(SymbolOf(<<"s", "t", "a", "t", "i", "c">>), ConstantOf(1)),
     PopOf(SymbolOf(<<"t", "e", "m", "p">>), ConstantOf(8)),
     BranchingInstruction(Label(SymbolOf(<<"L", "O", "O", "P">>)))}

InitCalls ==
    /\ call = "Translator::translate, repeated"
    /\ ParserUnused
    /\ ValuesUnused
    /\ TranslatorUnused
    /\ returned = <<>>
    /\ run = Unused
    /\ machine = Unused

\* one more call of Translator::translate(line_number, &instruction,
\* file_name), with any arguments, unless a call has panicked; what it was
\* called with and what it returned is kept
TranslateAgain ==
    /\ call = "Translator::translate, repeated"
    /\ Len(returned) < MaxCalls
    /\ \A i \in DOMAIN returned : ~IsPanic(returned[i].result)
    /\ \E ins \in CalledInstructions, line \in 0..1, name \in FileNames :
          /\ instruction' = ins
          /\ line_number' = line
          /\ file_name' = name
          /\ assembly' = Translator_translate(line, ins, name)
          /\ returned' = Append(returned,
                            [instruction |-> ins, line_number |-> line,
                             file_name |-> name,
                             result |-> Translator_translate(line, ins, name)])
    /\ UNCHANGED <<call, parserVars, valueVars, run, machine>>

NextCalls == TranslateAgain

SpecCalls == InitCalls /\ [][NextCalls]_vars

\* what a call was made with
Arguments(c) == <<c.instruction, c.line_number, c.file_name>>

----------------------------------------------------------------------------
(* run_for_file (src/lib/lib.rs): one .vm file read, parsed, translated and
   written out as one .asm file. *)

CannotReadFileFromPath(message) ==
    [kind |-> "CannotReadFileFromPath", message |-> message]
BadFileTypeError == [kind |-> "BadFileTypeError"]

\* [&str]::join(sep)
RECURSIVE join(_, _)
join(strs, sep) ==
    IF strs = <<>> THEN <<>>
    ELSE IF Len(strs) = 1 THEN strs[1]
    ELSE strs[1] \o sep \o join(Tail(strs), sep)

\* a mutant: the lines are joined and nothing is put after them
written_for_no_newlines(lines) == <<join(lines, <<"\n">>)>>

\* what one turn of the loop hands to write_all, call by call: the lines
\* joined by "\n" with '\n' pushed, then b"\n"
written_for(lines) == <<join(lines, <<"\n">>) \o <<"\n">>, <<"\n">>>>

\* Path::extension and Path::file_stem of a path written stem.extension
Path_extension(path) == path.extension
Path_file_stem(path) == Some(path.stem)

\* how many lines the files translated have at most
MaxRunLines == 3

\* the lines of the files translated: instructions of every outcome of
\* translate, a line the Parser rejects and a line it skips
RunLines ==
    {<<"a", "d", "d">>, <<"p", "u", "s", "h", " ", "c", "o", "n", "s", "t", "a", "n", "t", " ", "7">>, <<"e", "q">>, <<"g", "t">>, <<"p", "o", "p", " ", "c", "o", "n", "s", "t", "a", "n", "t", " ", "0">>, <<"b", "a", "n", "a", "n", "a">>,
     <<"l", "a", "b", "e", "l", " ", "L", "O", "O", "P">>, <<"/", "/", " ", "c", "o", "m", "m", "e", "n", "t">>}

RunFiles == UNION {SeqsOfLen(RunLines, n) : n \in 0..MaxRunLines}

\* the paths handed to run_for_file
RunPaths ==
    {[stem |-> <<"F", "o", "o">>, extension |-> Some(<<"v", "m">>)],
     [stem |-> <<"F", "o", "o">>, extension |-> Some(<<"t", "x", "t">>)],
     [stem |-> <<"F", "o", "o">>, extension |-> None]}

\* what the output file, of the same stem and the extension asm, may hold
\* before the call
OldOutputs == {None, Some(<<"o", "l", "d">>)}

InitRun ==
    /\ call = "run_for_file"
    /\ ParserUnused
    /\ ValuesUnused
    /\ TranslatorUnused
    /\ returned = <<>>
    /\ machine = Unused
    /\ \E path \in RunPaths, source \in {None} \cup {Some(f) : f \in RunFiles},
          old \in OldOutputs, denied \in BOOLEAN :
          run = [pc |-> "Parser::try_from",
                 file |-> path,
                 \* the disk: the file at the path, the file at the path with
                 \* the extension asm, and whether that one may be created
                 source |-> source,
                 output |-> old,
                 denied |-> denied,
                 \* the locals
                 parser |-> Unused,
                 instructions |-> Unused,
                 \* what the output file held before the call
                 before |-> old,
                 result |-> Pending]

\* run_for_file returns r
Returns(r) == [run EXCEPT !.pc = "returned", !.result = r]

\* Parser::try_from(file.as_os_str())?
ReadSource ==
    /\ call = "run_for_file"
    /\ run.pc = "Parser::try_from"
    /\ run' = IF run.source = None
              THEN Returns(Err(CannotReadFileFromPath("No such file or directory (os error 2)")))
              ELSE [run EXCEPT !.pc = "parse", !.parser = run.source.val]
    /\ UNCHANGED <<call, parserVars, valueVars, translatorVars, returned, machine>>

\* parser.parse()?
ParseSource ==
    /\ call = "run_for_file"
    /\ run.pc = "parse"
    /\ LET instructions == Parser_parse(run.parser)
       IN run' = IF instructions.ok
                 THEN [run EXCEPT !.pc = "extension",
                                  !.instructions = instructions.val]
                 ELSE Returns(Err(instructions.err))
    /\ UNCHANGED <<call, parserVars, valueVars, translatorVars, returned, machine>>

\* a mutant: the output file is created before the extension is looked at
CheckExtension_after_create ==
    /\ call = "run_for_file"
    /\ run.pc = "extension"
    /\ run' = IF run.file.extension = Some(<<"v", "m">>)
              THEN [run EXCEPT !.pc = "File::create", !.output = Some(<<>>)]
              ELSE [run EXCEPT !.pc = "returned",
                               !.result = Err([kind |-> "BadFileTypeError"]),
                               !.output = Some(<<>>)]
    /\ UNCHANGED <<call, parserVars, valueVars, translatorVars, returned, machine>>

\* file.extension().is_some_and(|ext| ext == "vm"), or BadFileTypeError
CheckExtension ==
    /\ call = "run_for_file"
    /\ run.pc = "extension"
    /\ run' = IF Path_extension(run.file) = Some(<<"v", "m">>)
              THEN [run EXCEPT !.pc = "File::create"]
              ELSE Returns(Err(BadFileTypeError))
    /\ UNCHANGED <<call, parserVars, valueVars, translatorVars, returned, machine>>

\* file.file_stem().ok_or(HackError::Internal)? and File::create(new_file)?,
\* which creates the file or truncates it
CreateOutput ==
    /\ call = "run_for_file"
    /\ run.pc = "File::create"
    /\ run' = IF Path_file_stem(run.file) = None
              THEN Returns(Err(Internal))
              ELSE IF run.denied
              THEN Returns(Err(CannotReadFileFromPath("Permission denied (os error 13)")))
              ELSE [run EXCEPT !.pc = "for", !.output = Some(<<>>)]
    /\ UNCHANGED <<call, parserVars, valueVars, translatorVars, returned, machine>>

\* one turn of the loop: the next instruction is translated and its lines
\* are written with two calls of write_all, either of which may fail
TranslateNext ==
    /\ call = "run_for_file"
    /\ run.pc = "for"
    /\ run.instructions # <<>>
    /\ LET next == Head(run.instructions)
           lines == Translator_translate(next[1], next[2],
                                         Path_file_stem(run.file).val)
       IN IF IsPanic(lines)
          THEN run' = Returns(lines)
          ELSE IF ~lines.ok
          THEN run' = Returns(Err(lines.err))
          ELSE LET writes == written_for(lines.val)
               IN \E done \in 0..Len(writes) :
                     LET output == Some(run.output.val
                                        \o join(SubSeq(writes, 1, done), <<>>))
                     IN run' =
                           IF done = Len(writes)
                           THEN [run EXCEPT !.output = output,
                                            !.instructions = Tail(@)]
                           ELSE [Returns(Err(CannotReadFileFromPath("No space left on device (os error 28)")))
                                    EXCEPT !.output = output]
    /\ UNCHANGED <<call, parserVars, valueVars, translatorVars, returned, machine>>

\* the loop is over: Ok(())
ReturnOk ==
    /\ call = "run_for_file"
    /\ run.pc = "for"
    /\ run.instructions = <<>>
    /\ run' = Returns(Ok(<<>>))
    /\ UNCHANGED <<call, parserVars, valueVars, translatorVars, returned, machine>>

NextRun ==
    \/ ReadSource
    \/ ParseSource
    \/ CheckExtension
    \/ CreateOutput
    \/ TranslateNext
    \/ ReturnOk

SpecRun == InitRun /\ [][NextRun]_vars

----------------------------------------------------------------------------
(* What the claims about run_for_file speak of. *)

\* the lines, each terminated by a newline
RECURSIVE Terminated(_)
Terminated(lines) ==
    IF lines = <<>> THEN <<>>
    ELSE lines[1] \o <<"\n">> \o Terminated(Tail(lines))

\* the blocks of the instructions, in order: each one's lines terminated,
\* then one empty line
RECURSIVE Blocks(_, _)
Blocks(instructions, stem) ==
    IF instructions = <<>> THEN <<>>
    ELSE LET first == Head(instructions)
         IN Terminated(Translator_translate(first[1], first[2], stem).val)
            \o <<"\n">>
            \o Blocks(Tail(instructions), stem)

\* the instructions of the file, and the ones the loop has been through
AllInstructions == Parser_parse(run.source.val).val
InstructionsDone ==
    SubSeq(AllInstructions, 1, Len(AllInstructions) - Len(run.instructions))

\* C16: when a file is translated successfully, the output file consists of
\* the blocks of the instructions in input order, one block per instruction;
\* each block is that instruction's assembly lines in order, each terminated
\* by a newline, followed by one blank separator line, and nothing else is
\* written: through the loop the file holds the blocks of the instructions
\* done, and all of them when Ok is returned.
C16_OutputIsTheBlocks ==
    /\ (call = "run_for_file" /\ run.pc = "for") =>
          run.output = Some(Blocks(InstructionsDone, run.file.stem))
    /\ (call = "run_for_file" /\ run.pc = "returned" /\ IsOk(run.result)) =>
          /\ run.instructions = <<>>
          /\ run.output = Some(Blocks(AllInstructions, run.file.stem))

\* a file of three instructions, a comparison last, has been translated
C16_Witness ==
    /\ call = "run_for_file"
    /\ run.pc = "returned"
    /\ IsOk(run.result)
    /\ Len(AllInstructions) = 3
    /\ AllInstructions[3][2] = ArithmeticInstruction("Equal")
    /\ Len(run.output.val) > 3

\* run_for_file has returned the error of a line the Parser rejects or of an
\* instruction translate fails on
FailedOnInstruction ==
    /\ call = "run_for_file"
    /\ run.pc = "returned"
    /\ IsErr(run.result)
    /\ run.result.err.kind \notin
          {"CannotReadFileFromPath", "BadFileTypeError", "Internal"}

\* C17: there is no partial-success mode: when a line fails to parse or an
\* instruction fails to translate, the translation of the whole file is
\* aborted with that error, no later instruction is translated or written,
\* and no assembly output covering only a prefix of the file's instructions
\* is produced: the output file holds no assembly the call wrote.
C17_NoPartialOutput ==
    FailedOnInstruction =>
        \/ run.output = run.before
        \/ run.output = Some(<<>>)

----------------------------------------------------------------------------
(* The target machine: the Hack computer running the assembly emitted.
   Words are 16 bits, kept as 0..65535; the A register addresses the cell M;
   a label stands for the address of the instruction after it. *)

WORD == 65536

\* the word of an integer, and the integer a word is in two's complement
Word(v) == v % WORD
Signed(w) == IF w >= WORD \div 2 THEN w - WORD ELSE w

\* bit by bit
RECURSIVE BitAnd(_, _)
BitAnd(a, b) ==
    IF a = 0 \/ b = 0 THEN 0
    ELSE (a % 2) * (b % 2) + 2 * BitAnd(a \div 2, b \div 2)
BitNot(a) == WORD - 1 - a
BitOr(a, b) == BitNot(BitAnd(BitNot(a), BitNot(b)))

\* where c first occurs in the line, 0 if nowhere
IndexOf(line, c) ==
    IF \E i \in DOMAIN line : line[i] = c
    THEN CHOOSE i \in DOMAIN line : line[i] = c /\ \A j \in 1..(i - 1) : line[j] # c
    ELSE 0

\* the fields of dest=comp;jump
DestOf(line) ==
    IF IndexOf(line, "=") = 0 THEN <<>>
    ELSE SubSeq(line, 1, IndexOf(line, "=") - 1)
JumpOf(line) ==
    IF IndexOf(line, ";") = 0 THEN <<>>
    ELSE SubSeq(line, IndexOf(line, ";") + 1, Len(line))
CompOf(line) ==
    SubSeq(line, IndexOf(line, "=") + 1,
           IF IndexOf(line, ";") = 0 THEN Len(line)
           ELSE IndexOf(line, ";") - 1)

\* the value of a comp field over the registers and the cell addressed
Comp(comp, a, d, m) ==
    CASE comp = <<"0">> -> 0
      [] comp = <<"1">> -> 1
      [] comp = <<"-", "1">> -> Word(-1)
      [] comp = <<"D">> -> d
      [] comp = <<"A">> -> a
      [] comp = <<"M">> -> m
      [] comp = <<"!", "D">> -> BitNot(d)
      [] comp = <<"!", "A">> -> BitNot(a)
      [] comp = <<"!", "M">> -> BitNot(m)
      [] comp = <<"-", "D">> -> Word(-d)
      [] comp = <<"-", "A">> -> Word(-a)
      [] comp = <<"-", "M">> -> Word(-m)
      [] comp = <<"D", "+", "1">> -> Word(d + 1)
      [] comp = <<"A", "+", "1">> -> Word(a + 1)
      [] comp = <<"M", "+", "1">> -> Word(m + 1)
      [] comp = <<"D", "-", "1">> -> Word(d - 1)
      [] comp = <<"A", "-", "1">> -> Word(a - 1)
      [] comp = <<"M", "-", "1">> -> Word(m - 1)
      [] comp = <<"D", "+", "A">> -> Word(d + a)
      [] comp = <<"D", "+", "M">> -> Word(d + m)
      [] comp = <<"D", "-", "A">> -> Word(d - a)
      [] comp = <<"D", "-", "M">> -> Word(d - m)
      [] comp = <<"A", "-", "D">> -> Word(a - d)
      [] comp = <<"M", "-", "D">> -> Word(m - d)
      [] comp = <<"D", "&", "A">> -> BitAnd(d, a)
      [] comp = <<"D", "&", "M">> -> BitAnd(d, m)
      [] comp = <<"D", "|", "A">> -> BitOr(d, a)
      [] comp = <<"D", "|", "M">> -> BitOr(d, m)

\* the comp field reads the cell addressed
ReadsM(comp) == \E i \in DOMAIN comp : comp[i] = "M"

\* the jump field, over the value computed
JumpTaken(jump, value) ==
    CASE jump = <<>> -> FALSE
      [] jump = <<"J", "G", "T">> -> Signed(value) > 0
      [] jump = <<"J", "E", "Q">> -> Signed(value) = 0
      [] jump = <<"J", "G", "E">> -> Signed(value) >= 0
      [] jump = <<"J", "L", "T">> -> Signed(value) < 0
      [] jump = <<"J", "N", "E">> -> Signed(value) # 0
      [] jump = <<"J", "L", "E">> -> Signed(value) <= 0
      [] jump = <<"J", "M", "P">> -> TRUE

\* the instructions of a program, its label definitions taken out
RECURSIVE InstructionsOf(_)
InstructionsOf(lines) ==
    IF lines = <<>> THEN <<>>
    ELSE IF DefinesLabel(Head(lines)) THEN InstructionsOf(Tail(lines))
    ELSE <<Head(lines)>> \o InstructionsOf(Tail(lines))

\* the address a label stands for: how many instructions come before its
\* definition
LabelAddress(lines, label) ==
    LET at == CHOOSE i \in DOMAIN lines :
                  lines[i] = <<"(">> \o label \o <<")">>
    IN Len(InstructionsOf(SubSeq(lines, 1, at)))

\* the first cell given to a variable
VARIABLES_BASE == 16

\* the symbols that are neither predefined nor labels, in the order they
\* first appear: the variables, given the cells from 16 on
RECURSIVE VariablesOf(_, _, _)
VariablesOf(lines, labels, seen) ==
    IF lines = <<>> THEN seen
    ELSE LET line == Head(lines)
             new == /\ ReferencesLabel(line)
                    /\ Tail(line) \notin labels
                    /\ \A i \in DOMAIN seen : seen[i] # Tail(line)
         IN VariablesOf(Tail(lines), labels,
                        IF new THEN Append(seen, Tail(line)) ELSE seen)

\* the address an @ instruction loads
AddressOf(lines, name) ==
    CASE IsDecimal(name) -> DecimalValue(name)
      [] name = <<"S", "P">> -> 0
      [] name = <<"L", "C", "L">> -> 1
      [] name = <<"A", "R", "G">> -> 2
      [] name = <<"T", "H", "I", "S">> -> 3
      [] name = <<"T", "H", "A", "T">> -> 4
      [] name = <<"S", "C", "R", "E", "E", "N">> -> 16384
      [] name = <<"K", "B", "D">> -> 24576
      [] \E n \in 0..15 : name = <<"R">> \o Decimal(n) ->
            CHOOSE n \in 0..15 : name = <<"R">> \o Decimal(n)
      [] name \in LabelsDefined(lines) -> LabelAddress(lines, name)
      [] OTHER ->
            LET variables == VariablesOf(lines, LabelsDefined(lines), <<>>)
            IN VARIABLES_BASE - 1
                  + CHOOSE i \in DOMAIN variables : variables[i] = name

\* one instruction of the program run: the registers, the memory and the
\* program counter after it
Execute(program, m) ==
    LET line == InstructionsOf(program)[m.pc + 1]
    IN IF line[1] = "@"
       THEN [m EXCEPT !.a = AddressOf(program, Tail(line)), !.pc = @ + 1]
       ELSE LET dest == DestOf(line)
                comp == CompOf(line)
                value == Comp(comp, m.a, m.d,
                              IF ReadsM(comp) THEN m.ram[m.a] ELSE 0)
                to(r) == \E i \in DOMAIN dest : dest[i] = r
            IN [m EXCEPT
                  !.a = IF to("A") THEN value ELSE @,
                  !.d = IF to("D") THEN value ELSE @,
                  !.ram = IF to("M") THEN [@ EXCEPT ![m.a] = value] ELSE @,
                  !.written = IF to("M") THEN @ \cup {m.a} ELSE @,
                  !.pc = IF JumpTaken(JumpOf(line), value) THEN m.a ELSE @ + 1]

\* the instruction at the program counter touches a cell the memory modelled
\* has
InMemory(program, m) ==
    LET line == InstructionsOf(program)[m.pc + 1]
    IN (line[1] # "@" /\ \E i \in DOMAIN line : line[i] = "M") =>
          m.a \in DOMAIN m.ram

----------------------------------------------------------------------------
(* Running the assembly of one instruction. *)

\* the last cell of the memory modelled
MemoryTop == 20

\* the operands tried, as integers: around 0 and at both ends of the 16-bit
\* two's-complement range
Operands ==
    ((0 - Window)..Window)
    \cup ((WORD \div 2 - 1 - Window)..(WORD \div 2 - 1))
    \cup ((0 - WORD \div 2)..(Window - WORD \div 2))

\* what the cells and the registers hold that the run is not given
Filler(address) == 21845 + address

\* the instructions run
MachineInstructions == {ArithmeticInstruction(op) : op \in ArithmeticOps}

\* where LCL, ARG, THIS and THAT point: at cells above the registers, among
\* them the cells of the stack and of the static variable
BasePointers == <<VARIABLES_BASE, VARIABLES_BASE + 1, VARIABLES_BASE + 2, VARIABLES_BASE + 1>>

\* the memory with the stack pointer at sp, y on top of the stack and x below
StackOf(sp, x, y) ==
    [address \in 0..MemoryTop |->
        CASE address = 0 -> sp
          [] address = sp - 2 -> Word(x)
          [] address = sp - 1 -> Word(y)
          [] address \in 1..4 -> BasePointers[address]
          [] OTHER -> Filler(address)]

\* the indices the pushes and the pops run are of: the cells a base pointer
\* reaches within the memory modelled, and for the other segments the ends
\* of the ranges as well
StackIndexes(name) ==
    IF name \in {<<"l", "o", "c", "a", "l">>, <<"a", "r", "g", "u", "m", "e", "n", "t">>, <<"t", "h", "i", "s">>, <<"t", "h", "a", "t">>}
    THEN 0..2
    ELSE {0, 1, 2, TEMP_MAX - TEMP_BASE, MAX_VALID_CONSTANT}

\* the pushes and the pops run
StackInstructions ==
    UNION {UNION {{PushOf(SymbolOf(s), ConstantOf(n)),
                   PopOf(SymbolOf(s), ConstantOf(n))} : n \in StackIndexes(s)} :
              s \in SegmentNames}

InitMachine ==
    /\ call = "machine"
    /\ ParserUnused
    /\ ValuesUnused
    /\ returned = <<>>
    /\ run = Unused
    /\ file_name = <<"F", "o", "o">>
    /\ assembly = Pending
    /\ \/ /\ instruction \in MachineInstructions
          /\ line_number \in {0, MaxLineNumber}
       \/ /\ instruction \in StackInstructions
          /\ line_number = 0
    /\ \E sp \in {MemoryTop - 1, MemoryTop},
          x \in IF instruction \in StackInstructions THEN {1} ELSE Operands,
          y \in Operands, register \in {0, Filler(0)} :
          machine = [pc |-> 0, a |-> register, d |-> register,
                     ram |-> StackOf(sp, x, y), written |-> {},
                     \* what the run started from
                     sp |-> sp, x |-> Word(x), y |-> Word(y)]

\* the instruction is translated and its assembly loaded
Load ==
    /\ call = "machine"
    /\ assembly = Pending
    /\ assembly' = Translator_translate(line_number, instruction, file_name)
    /\ UNCHANGED <<call, parserVars, valueVars, instruction, line_number,
                   file_name, returned, run, machine>>

\* the machine has run past the last instruction
Halted ==
    /\ call = "machine"
    /\ IsOk(assembly)
    /\ machine.pc >= Len(InstructionsOf(assembly.val))

\* the machine executes the instruction at the program counter
Tick ==
    /\ call = "machine"
    /\ IsOk(assembly)
    /\ ~Halted
    /\ InMemory(assembly.val, machine)
    /\ machine' = Execute(assembly.val, machine)
    /\ UNCHANGED <<call, parserVars, valueVars, translatorVars, returned, run>>

NextMachine == Load \/ Tick

SpecMachine == InitMachine /\ [][NextMachine]_vars

----------------------------------------------------------------------------
(* What the claims about the assembly run speak of. *)

\* the words of true and of false
TrueWord == Word(-1)
FalseWord == Word(0)

\* the cell on top of the stack
TopCell == machine.ram[machine.ram[0] - 1]

\* what the operation is of the integers x and y
Relation(op, x, y) ==
    CASE op = "Equal" -> x = y
      [] op = "GreaterThan" -> x > y
      [] op = "Lessthan" -> x < y

\* C19: executing the assembly emitted for eq, gt or lt, the left operand x
\* below the top of the stack and the right operand y on top, for all 16-bit
\* two's-complement x and y: execution reaches the burn label, SP ends
\* exactly one lower, and the new top cell holds -1 when x = y, x > y or
\* x < y respectively, and 0 otherwise.
C19_ComparisonsCompare ==
    (Halted /\ instruction \in Comparisons) =>
        /\ machine.pc =
              LabelAddress(assembly.val, <<"B", "U", "R", "N", "_">> \o Decimal(line_number))
        /\ machine.ram[0] = machine.sp - 1
        /\ TopCell =
              (IF Relation(instruction.of, Signed(machine.x), Signed(machine.y))
               THEN TrueWord ELSE FalseWord)

\* C20: executing the assembly emitted for add, sub, and, or: SP ends one
\* lower, the new top cell holds x + y, x - y, x & y, x | y wrapped to 16
\* bits, and no memory cell other than SP and that cell is written.
C20_BinaryComputes ==
    /\ (Halted /\ instruction \in {ArithmeticInstruction(op) :
                                      op \in {"Add", "Subtract", "And", "Or"}}) =>
          /\ machine.ram[0] = machine.sp - 1
          /\ TopCell =
                (CASE instruction.of = "Add" -> Word(machine.x + machine.y)
                   [] instruction.of = "Subtract" -> Word(machine.x - machine.y)
                   [] instruction.of = "And" -> BitAnd(machine.x, machine.y)
                   [] instruction.of = "Or" -> BitOr(machine.x, machine.y))
          /\ machine.written = {0, machine.sp - 2}
          /\ \A address \in DOMAIN machine.ram :
                address \notin {0, machine.sp - 2} =>
                   machine.ram[address] =
                      StackOf(machine.sp, machine.x, machine.y)[address]
    /\ (/\ call = "machine"
        /\ IsOk(assembly)
        /\ instruction \in {ArithmeticInstruction(op) :
                               op \in {"Add", "Subtract", "And", "Or"}}) =>
          machine.written \subseteq {0, machine.sp - 2}

\* 32767 + 1 has wrapped to -32768
C20_Witness ==
    /\ Halted
    /\ instruction = ArithmeticInstruction("Add")
    /\ Signed(machine.x) = 32767
    /\ Signed(machine.y) = 1
    /\ Signed(TopCell) = 0 - 32768
    /\ machine.ram[0] = machine.sp - 1

\* C21: translating neg or not yields exactly 3 lines with no label or jump,
\* and executing them leaves the stack pointer unchanged and replaces only
\* the top-of-stack cell, with the 16-bit arithmetic negation (neg) or the
\* bitwise complement (not) of its previous value; every other memory cell
\* is unchanged.
C21_UnaryInPlace ==
    (/\ call = "machine"
     /\ IsOk(assembly)
     /\ instruction \in {ArithmeticInstruction(op) : op \in {"Negative", "Not"}}) =>
        /\ Len(assembly.val) = 3
        /\ \A i \in DOMAIN assembly.val :
              /\ ~DefinesLabel(assembly.val[i])
              /\ ~ReferencesLabel(assembly.val[i])
              /\ ~Jumps(assembly.val[i])
        /\ machine.written \subseteq {machine.sp - 1}
        /\ machine.ram[0] = machine.sp
        /\ Halted =>
              /\ machine.pc = 3
              /\ machine.written = {machine.sp - 1}
              /\ TopCell =
                    (IF instruction.of = "Negative"
                     THEN Word(0 - Signed(machine.y))
                     ELSE BitNot(machine.y))
              /\ \A address \in DOMAIN machine.ram :
                    address # machine.sp - 1 =>
                       machine.ram[address] =
                          StackOf(machine.sp, machine.x, machine.y)[address]

\* -32768 has been negated, to itself
C21_Witness ==
    /\ Halted
    /\ instruction = ArithmeticInstruction("Negative")
    /\ Signed(machine.y) = 0 - 32768
    /\ TopCell = machine.y
    /\ machine.ram[0] = machine.sp

\* the memory the run started from
Start == StackOf(machine.sp, machine.x, machine.y)

\* a push or a pop has been translated and is run
Runs(variant) ==
    /\ call = "machine"
    /\ IsOk(assembly)
    /\ instruction.family = "StackManipulation"
    /\ instruction.of.variant = variant

\* the cell a segment and an index stand for, but for constant: base
\* pointer plus index, the cell of the one static variable of the program,
\* 5 + index, THIS or THAT
CellOf(name, i) ==
    CASE name = <<"l", "o", "c", "a", "l">> -> Start[1] + i
      [] name = <<"a", "r", "g", "u", "m", "e", "n", "t">> -> Start[2] + i
      [] name = <<"t", "h", "i", "s">> -> Start[3] + i
      [] name = <<"t", "h", "a", "t">> -> Start[4] + i
      [] name = <<"s", "t", "a", "t", "i", "c">> -> VARIABLES_BASE
      [] name = <<"t", "e", "m", "p">> -> 5 + i
      [] name = <<"p", "o", "i", "n", "t", "e", "r">> -> 3 + i

\* the segment of the push or pop run, and its cell
SegmentName == instruction.of.symbol.literal_representation
Cell == CellOf(SegmentName, Index)

\* C22: executing the emitted code of a successful Push writes the source
\* value to the cell the stack pointer addressed before, increments the
\* stack pointer by exactly one and writes no other memory cell, where the
\* source value is the literal index for constant, RAM[RAM[base] + index] for
\* local, argument, this, that, RAM[<fileStem>.<index>] for static,
\* RAM[5 + index] for temp and the content of THIS or THAT for pointer 0 or 1;
\* the emitted code always ends with the same 5 instructions.
C22_PushPushes ==
    Runs("Push") =>
        /\ SubSeq(assembly.val, Len(assembly.val) - 4, Len(assembly.val)) =
              <<<<"@", "S", "P">>, <<"A", "=", "M">>, <<"M", "=", "D">>, <<"@", "S", "P">>, <<"M", "=", "M", "+", "1">>>>
        /\ SegmentName = <<"s", "t", "a", "t", "i", "c">> =>
              assembly.val[1] = <<"@">> \o file_name \o <<".">> \o Decimal(Index)
        /\ machine.written \subseteq {0, machine.sp}
        /\ Halted =>
              /\ machine.ram[machine.sp] =
                    (IF SegmentName = <<"c", "o", "n", "s", "t", "a", "n", "t">> THEN Index ELSE Start[Cell])
              /\ machine.ram[0] = machine.sp + 1
              /\ machine.written = {0, machine.sp}
              /\ \A address \in DOMAIN machine.ram :
                    address \notin {0, machine.sp} =>
                       machine.ram[address] = Start[address]

\* push that 2 has pushed what the cell two past the one THAT points at held
C22_Witness ==
    /\ Runs("Push")
    /\ Halted
    /\ SegmentName = <<"t", "h", "a", "t">>
    /\ Index = 2
    /\ machine.ram[machine.sp] = Start[Start[4] + 2]
    /\ machine.ram[0] = machine.sp + 1

----------------------------------------------------------------------------
(* The labels of one output file. *)

\* the lines of a text, each ended by "\n"
RECURSIVE LinesOf(_)
LinesOf(bytes) ==
    IF bytes = <<>> THEN <<>>
    ELSE LET end == IndexOf(bytes, "\n")
         IN IF end = 0 THEN <<bytes>>
            ELSE <<SubSeq(bytes, 1, end - 1)>>
                    \o LinesOf(SubSeq(bytes, end + 1, Len(bytes)))

\* the blocks of the lines: the runs of lines an empty line ends
RECURSIVE BlocksOf(_, _)
BlocksOf(lines, block) ==
    IF lines = <<>> THEN (IF block = <<>> THEN <<>> ELSE <<block>>)
    ELSE IF Head(lines) = <<>> THEN <<block>> \o BlocksOf(Tail(lines), <<>>)
    ELSE BlocksOf(Tail(lines), Append(block, Head(lines)))

\* the lines the output file holds
OutputLines == LinesOf(run.output.val)

\* C24: in the output produced for one input file by parse followed by the
\* per-instruction translate loop, no label is defined twice, for any sequence
\* of instructions with any number of comparisons in any positions, and every
\* label a comparison block references is defined inside that same block;
\* each instruction of the file receives a distinct index.
C24_LabelsDefinedOnce ==
    (call = "run_for_file" /\ run.pc \in {"for", "returned"} /\ run.output.some) =>
        LET lines == OutputLines
            definitions == {i \in DOMAIN lines : DefinesLabel(lines[i])}
            blocks == BlocksOf(lines, <<>>)
        IN /\ \A i, j \in definitions : i # j => lines[i] # lines[j]
           /\ \A b \in DOMAIN blocks :
                 LabelsReferenced(blocks[b]) \subseteq LabelsDefined(blocks[b])
           /\ run.pc = "for" =>
                 LET all == AllInstructions
                 IN \A i, j \in DOMAIN all : i # j => all[i][1] # all[j][1]

\* the blocks of a file of three comparisons have been written: six labels
C24_Witness ==
    /\ call = "run_for_file"
    /\ run.pc = "for"
    /\ run.instructions = <<>>
    /\ Len(AllInstructions) = 3
    /\ \A i \in DOMAIN AllInstructions : AllInstructions[i][2] \in Comparisons
    /\ LET lines == OutputLines
       IN /\ Cardinality(LabelsDefined(lines)) = 6
          /\ Cardinality({i \in DOMAIN lines : DefinesLabel(lines[i])}) = 6

----------------------------------------------------------------------------
(* The internal error and the Parser. *)

\* the words tried as the first token of a line
FirstWords == CommandWords \cup SymbolWords

\* C25: the internal error is unreachable from parsing: for no input text
\* does Parser::parse return HackError::Internal, because no single token is
\* accepted both as an Arithmetic operation and as Return, and no first token
\* is accepted both as a stack-manipulation keyword and as a function or call
\* keyword.
C25_InternalUnreachable ==
    (call = "Parser::parse" /\ parsed # Pending) =>
        /\ IsErr(parsed) => parsed.err.kind # "Internal"
        /\ \A i \in DOMAIN file :
              LET tokens == TokensOf(file[i])
              IN /\ Len(tokens) = 1 =>
                       ~(/\ Arithmetic_from_str(tokens[1]).ok
                         /\ Functional_from_str(tokens[1]).ok)
                 /\ (/\ Len(tokens) = 3
                     /\ Symbol_from_str(tokens[2]).ok
                     /\ Constant_from_str(tokens[3]).ok) =>
                       LET sym == Symbol_from_str(tokens[2]).val
                           value == Constant_from_str(tokens[3]).val
                       IN ~(/\ StackManipulation_try_from(tokens[1], sym, value).ok
                            /\ Functional_try_from(tokens[1], sym, value).ok)
        /\ \A word \in FirstWords :
              ~(Arithmetic_from_str(word).ok /\ Functional_from_str(word).ok)

\* a line of three tokens has been parsed to a call, which the
\* stack-manipulation keywords do not match
C25_Witness ==
    /\ call = "Parser::parse"
    /\ IsOk(parsed)
    /\ Len(parsed.val) = 1
    /\ parsed.val[1][2].family = "Functional"
    /\ parsed.val[1][2].of.variant = "Call"
    /\ Len(OnlyLine) = 3

----------------------------------------------------------------------------
(* The order of run_for_file. *)

\* what reading and parsing the file at the path come to
SourceRead == run.source # None
SourceParsed == Parser_parse(run.source.val)
ExtensionIsVm == Path_extension(run.file) = Some(<<"v", "m">>)

----------------------------------------------------------------------------
(* Every entry point, one call a behaviour. *)

Init ==
    InitParser \/ InitValues \/ InitTranslator \/ InitCalls \/ InitRun
    \/ InitMachine

Next ==
    NextParser \/ NextValues \/ NextTranslator \/ NextCalls \/ NextRun
    \/ NextMachine

Spec == Init /\ [][Next]_vars

====
